---- MODULE Spec2Model ----
(***************************************************************************)
(* The news-system store of the AIDB viewer server: four JSONL collections *)
(* (categories, users, news, comments), each kept in a dedicated file      *)
(* <db>/<collection>/documents.jsonl and, for legacy data, in the shared   *)
(* <db>/documents.jsonl, with the request handlers that create, update,    *)
(* delete and read them.                                                   *)
(***************************************************************************)
EXTENDS Integers, Sequences, FiniteSets, TLC

VARIABLES
    files,      \* collection -> the documents of <db>/<collection>/documents.jsonl
    present,    \* the collections whose dedicated file exists (existsSync)
    rootFile,   \* the documents of the shared <db>/documents.jsonl
    clock,      \* Date.now()
    uuid,       \* the source of randomUUID(): the next unused value
    req,        \* the last request: its parameters and body
    res,        \* the response to it
    pending     \* the requests that overlap: each handler that is waiting
                \* for a file read, with what it read, and each that answered

vars == <<files, present, rootFile, clock, uuid, req, res, pending>>

(***************************************************************************)
(* Bounds of the model.                                                    *)
(***************************************************************************)
MaxClock == 2
MaxUuid == 3
MaxNews == 2
MaxComments == 3
MaxStored == 2
MaxLines == 2
MaxPad == 1
MaxOverlap == 3

(***************************************************************************)
(* JavaScript values.  A string-valued field is a string, null or          *)
(* undefined; a number-valued field is a number or undefined.              *)
(***************************************************************************)
UNDEF == "<undefined>"
NULL == "<null>"
UndefNum == -1

Collections == {"categories", "users", "news", "comments"}

\* The truthiness test of `if (v)`, `!v` and `v ? a : b` on a string field.
Truthy(v) == v \notin {UNDEF, NULL, ""}

\* `a || b` on string fields.
Or(a, b) == IF Truthy(a) THEN a ELSE b

\* The truthiness test on a number field: undefined and 0 are falsy.
TruthyNum(n) == n \notin {UndefNum, 0}

\* `a || b` on number fields.
OrNum(a, b) == IF TruthyNum(a) THEN a ELSE b

\* `obj?.key` for a string-valued key: undefined when the key is missing.
Get(obj, key) == IF key \in DOMAIN obj THEN obj[key] ELSE UNDEF

\* `obj?.key` for a number-valued key.
GetNum(obj, key) == IF key \in DOMAIN obj THEN obj[key] ELSE UndefNum

\* The keys of a document and of its metadata that may hold undefined.
StrOptKeys == {"parent_id"}
NumOptKeys == {"publishedAt"}

\* JSON.parse(JSON.stringify(obj)) on one level: a key whose value is
\* undefined is not written, and so is missing when the line is read back.
DropUndefined(obj) ==
    LET dropped == {k \in DOMAIN obj \cap StrOptKeys : obj[k] = UNDEF}
                   \cup {k \in DOMAIN obj \cap NumOptKeys : obj[k] = UndefNum}
    IN  [k \in (DOMAIN obj) \ dropped |-> obj[k]]

\* A document as it is read back after JSON.stringify(doc) + '\n' was written.
Stringify(doc) ==
    DropUndefined([doc EXCEPT !.metadata = DropUndefined(doc.metadata)])

\* documents.map(doc => JSON.stringify(doc)).join('\n') + '\n', read back.
StringifyAll(docs) == [i \in 1..Len(docs) |-> Stringify(docs[i])]

Ids(docs) == {docs[i].id : i \in 1..Len(docs)}

\* docs.some(d => d.id): the comparison with the id is lost.
SomeIdUncompared(docs, id) == \E i \in 1..Len(docs) : Truthy(docs[i].id)

\* docs.some(d => d.id === id)
SomeId(docs, id) == \E i \in 1..Len(docs) : docs[i].id = id

\* docs.filter(d => d.id !== id)
FilterOutId(docs, id) == SelectSeq(docs, LAMBDA d : d.id # id)

\* docs.findIndex(d => d.id === id), 1-based; 0 for -1.
FindIndex(docs, id) ==
    IF \E i \in 1..Len(docs) : docs[i].id = id
    THEN CHOOSE i \in 1..Len(docs) :
            docs[i].id = id /\ \A j \in 1..(i - 1) : docs[j].id # id
    ELSE 0

(***************************************************************************)
(* The collection reader.                                                  *)
(***************************************************************************)
\* readCollectionFile: the dedicated file only, [] when it does not exist.
readCollectionFile(collection) ==
    IF collection \in present THEN files[collection] ELSE <<>>

\* getDocumentsByCollection: the dedicated file, then the documents of the
\* shared file tagged for the collection whose id the dedicated file lacks.
getDocumentsByCollection(collection) ==
    LET results == readCollectionFile(collection)
        filteredDocs ==
            SelectSeq(rootFile,
                      LAMBDA doc : Get(doc.metadata, "_collection") = collection)
        existingIds == Ids(results)
    IN  results \o SelectSeq(filteredDocs, LAMBDA doc : doc.id \notin existingIds)

\* writeCollectionFile: the directory is created and the file replaced.
writeCollectionFile(collection, documents) ==
    /\ files' = [files EXCEPT ![collection] = StringifyAll(documents)]
    /\ present' = present \cup {collection}

\* appendFileSync on a dedicated file (the directory is created first).
appendCollectionFile(collection, doc) ==
    /\ files' = [files EXCEPT
                    ![collection] = Append(readCollectionFile(collection),
                                           Stringify(doc))]
    /\ present' = present \cup {collection}

(***************************************************************************)
(* Responses.  An error response is res.status(s).json({error: ...}); the  *)
(* record keeps the status, the kind of the message and the parts the      *)
(* message interpolates.                                                   *)
(***************************************************************************)
Response(op, status, kind, field, value, target) ==
    [op |-> op, status |-> status, kind |-> kind,
     field |-> field, value |-> value, target |-> target]

Ok(op, status, id) == Response(op, status, "ok", "", id, "")

\* An early return of a handler that made every collection file first.
RejectAfterCreatingFiles(r) ==
    /\ res' = r
    /\ present' = Collections
    /\ UNCHANGED <<files, rootFile, clock, uuid, pending>>

\* An early `return res.status(..).json(..)`: nothing was written.
Reject(r) ==
    /\ res' = r
    /\ UNCHANGED <<files, present, rootFile, clock, uuid, pending>>

(***************************************************************************)
(* The foreign-key declarations written into each document.                *)
(***************************************************************************)
ArticleForeignKeys ==
    [categoryId |-> [targetCollection |-> "categories", onDelete |-> "restrict"],
     authorId |-> [targetCollection |-> "users", onDelete |-> "set_null"]]

CommentForeignKeys ==
    [newsId |-> [targetCollection |-> "news", onDelete |-> "cascade"],
     authorId |-> [targetCollection |-> "users", onDelete |-> "set_null"],
     parentId |-> [targetCollection |-> "comments", onDelete |-> "cascade"]]

\* `tags` of a request body that does not supply it.
NoTags == <<UNDEF>>

(***************************************************************************)
(* app.post('/api/news/articles')                                          *)
(***************************************************************************)
\* The document createArticle builds; `status` has its default applied.
NewArticle(articleId, title, content, categoryId, authorId, status, tags, now) ==
    [id |-> articleId,
     content |-> title \o "\n\n" \o content,
     content_type |-> "news",
     parent_id |-> UNDEF,
     children |-> <<>>,
     depth |-> 0,
     metadata |->
        [title |-> title,
         categoryId |-> categoryId,
         authorId |-> authorId,
         status |-> status,
         publishedAt |-> IF status = "published" THEN now ELSE UndefNum,
         viewCount |-> 0,
         likeCount |-> 0,
         _collection |-> "news",
         _foreignKeys |-> ArticleForeignKeys],
     tags |-> <<"news">> \o tags,
     created_at |-> now,
     last_accessed_at |-> now]

CreateArticle(title, content, categoryId, authorId, statusIn, tagsIn) ==
    LET op == "createArticle"
        request == [title |-> title, content |-> content, categoryId |-> categoryId,
                    authorId |-> authorId, status |-> statusIn, tags |-> tagsIn]
        status == IF statusIn = UNDEF THEN "draft" ELSE statusIn
        tags == IF tagsIn = NoTags THEN <<>> ELSE tagsIn
        categories == getDocumentsByCollection("categories")
        users == getDocumentsByCollection("users")
        categoryExists == SomeId(categories, categoryId)
        authorExists == SomeId(users, authorId)
        articleId == "news_" \o ToString(uuid)
        newArticle == NewArticle(articleId, title, content, categoryId,
                                 authorId, status, tags, clock)
    IN  /\ req' = request
        /\ IF ~Truthy(title) \/ ~Truthy(content)
            THEN Reject(Response(op, 400, "validation", "title,content", "", ""))
            ELSE IF ~Truthy(categoryId) \/ ~Truthy(authorId)
            THEN Reject(Response(op, 400, "validation", "categoryId,authorId", "", ""))
            ELSE IF ~categoryExists
            THEN Reject(Response(op, 400, "foreign_key", "categoryId", categoryId,
                                 "categories"))
            ELSE IF ~authorExists
            THEN Reject(Response(op, 400, "foreign_key", "authorId", authorId,
                                 "users"))
            ELSE /\ uuid < MaxUuid
                 /\ appendCollectionFile("news", newArticle)
                 /\ uuid' = uuid + 1
                 /\ res' = Ok(op, 201, articleId)
                 /\ UNCHANGED <<rootFile, clock, pending>>

(***************************************************************************)
(* app.put('/api/news/articles/:id')                                       *)
(***************************************************************************)
\* The update without `&& !article.metadata.publishedAt`: publishing again
\* stamps the article again.
UpdatedArticleRestamped(article, title, content, categoryId, authorId, status, tags, now) ==
    LET md0 == article.metadata
        md1 == IF Truthy(title) THEN ("title" :> title) @@ md0 ELSE md0
        newContent == IF Truthy(content)
                      THEN Get(md1, "title") \o "\n\n" \o content
                      ELSE article.content
        md2 == IF Truthy(categoryId)
               THEN ("categoryId" :> categoryId) @@ md1 ELSE md1
        md3 == IF Truthy(authorId) THEN ("authorId" :> authorId) @@ md2 ELSE md2
        md4 == IF Truthy(status) THEN ("status" :> status) @@ md3 ELSE md3
        md5 == IF Truthy(status) /\ status = "published"
               THEN ("publishedAt" :> now) @@ md4 ELSE md4
    IN  ("content" :> newContent)
        @@ ("metadata" :> md5)
        @@ ("tags" :> IF tags = NoTags THEN article.tags ELSE <<"news">> \o tags)
        @@ ("last_accessed_at" :> now)
        @@ article

\* The in-place update of the article found in the dedicated news file.
UpdatedArticle(article, title, content, categoryId, authorId, status, tags, now) ==
    LET md0 == article.metadata
        md1 == IF Truthy(title) THEN ("title" :> title) @@ md0 ELSE md0
        newContent == IF Truthy(content)
                      THEN Get(md1, "title") \o "\n\n" \o content
                      ELSE article.content
        md2 == IF Truthy(categoryId)
               THEN ("categoryId" :> categoryId) @@ md1 ELSE md1
        md3 == IF Truthy(authorId) THEN ("authorId" :> authorId) @@ md2 ELSE md2
        md4 == IF Truthy(status) THEN ("status" :> status) @@ md3 ELSE md3
        md5 == IF /\ Truthy(status)
                  /\ status = "published"
                  /\ ~TruthyNum(GetNum(md4, "publishedAt"))
               THEN ("publishedAt" :> now) @@ md4 ELSE md4
    IN  ("content" :> newContent)
        @@ ("metadata" :> md5)
        @@ ("tags" :> IF tags = NoTags THEN article.tags ELSE <<"news">> \o tags)
        @@ ("last_accessed_at" :> now)
        @@ article

UpdateArticle(id, title, content, categoryId, authorId, status, tags) ==
    LET op == "updateArticle"
        request == [id |-> id, title |-> title, content |-> content,
                    categoryId |-> categoryId, authorId |-> authorId,
                    status |-> status, tags |-> tags]
        newsDocs == files["news"]
        articleIndex == FindIndex(newsDocs, id)
        categories == getDocumentsByCollection("categories")
        users == getDocumentsByCollection("users")
    IN  /\ req' = request
        /\ IF "news" \notin present
            THEN Reject(Response(op, 404, "no_collection", "", id, "news"))
            ELSE IF articleIndex = 0
            THEN Reject(Response(op, 404, "not_found", "", id, "news"))
            ELSE IF Truthy(categoryId) /\ ~SomeId(categories, categoryId)
            THEN Reject(Response(op, 400, "foreign_key", "categoryId", categoryId, ""))
            ELSE IF Truthy(authorId) /\ ~SomeId(users, authorId)
            THEN Reject(Response(op, 400, "foreign_key", "authorId", authorId, ""))
            ELSE /\ files' = [files EXCEPT !["news"] =
                        StringifyAll([newsDocs EXCEPT ![articleIndex] =
                            UpdatedArticle(@, title, content, categoryId, authorId,
                                           status, tags, clock)])]
                 /\ res' = Ok(op, 200, id)
                 /\ UNCHANGED <<present, rootFile, clock, uuid, pending>>

(***************************************************************************)
(* app.delete('/api/news/articles/:id')                                    *)
(***************************************************************************)
DeleteArticle(id) ==
    LET op == "deleteArticle"
        request == [id |-> id]
        newsDocs == files["news"]
        filteredDocs == FilterOutId(newsDocs, id)
        commentsDocs == getDocumentsByCollection("comments")
        filteredComments ==
            SelectSeq(commentsDocs, LAMBDA c : Get(c.metadata, "newsId") # id)
    IN  /\ req' = request
        /\ IF "news" \notin present
            THEN Reject(Response(op, 404, "no_collection", "", id, "news"))
            ELSE IF Len(filteredDocs) = Len(newsDocs)
            THEN Reject(Response(op, 404, "not_found", "", id, "news"))
            ELSE /\ files' =
                      [files EXCEPT
                         !["news"] = StringifyAll(filteredDocs),
                         !["comments"] =
                            IF /\ Len(filteredComments) < Len(commentsDocs)
                               /\ "comments" \in present
                            THEN StringifyAll(filteredComments)
                            ELSE @]
                 /\ res' = Ok(op, 200, id)
                 /\ UNCHANGED <<present, rootFile, clock, uuid, pending>>

(***************************************************************************)
(* app.post('/api/news/comments')                                          *)
(***************************************************************************)
\* The document createComment builds; `parentId` has its default applied.
NewComment(commentId, newsId, authorId, content, parentId, now) ==
    [id |-> commentId,
     content |-> content,
     content_type |-> "comment",
     parent_id |-> Or(parentId, UNDEF),
     children |-> <<>>,
     depth |-> IF Truthy(parentId) THEN 1 ELSE 0,
     metadata |->
        [newsId |-> newsId,
         authorId |-> authorId,
         parentId |-> parentId,
         likeCount |-> 0,
         _collection |-> "comments",
         _foreignKeys |-> CommentForeignKeys],
     tags |-> IF Truthy(parentId) THEN <<"comment", "reply">> ELSE <<"comment">>,
     created_at |-> now,
     last_accessed_at |-> now]

CreateComment(newsId, authorId, content, parentIdIn) ==
    LET op == "createComment"
        request == [newsId |-> newsId, authorId |-> authorId, content |-> content,
                    parentId |-> parentIdIn]
        parentId == IF parentIdIn = UNDEF THEN NULL ELSE parentIdIn
        newsDocs == getDocumentsByCollection("news")
        users == getDocumentsByCollection("users")
        comments == getDocumentsByCollection("comments")
        newsExists == SomeId(newsDocs, newsId)
        authorExists == SomeId(users, authorId)
        parentExists == IF Truthy(parentId) THEN SomeId(comments, parentId) ELSE TRUE
        commentId == "comment_" \o ToString(uuid)
        newComment == NewComment(commentId, newsId, authorId, content, parentId,
                                 clock)
    IN  /\ req' = request
        /\ IF ~Truthy(content)
            THEN Reject(Response(op, 400, "validation", "content", "", ""))
            ELSE IF ~Truthy(newsId) \/ ~Truthy(authorId)
            THEN Reject(Response(op, 400, "validation", "newsId,authorId", "", ""))
            ELSE IF ~newsExists
            THEN Reject(Response(op, 400, "foreign_key", "newsId", newsId, "news"))
            ELSE IF ~authorExists
            THEN Reject(Response(op, 400, "foreign_key", "authorId", authorId, "users"))
            ELSE IF ~parentExists
            THEN Reject(Response(op, 400, "foreign_key", "parentId", parentId,
                                 "comments"))
            ELSE /\ uuid < MaxUuid
                 /\ rootFile' = Append(rootFile, Stringify(newComment))
                 /\ uuid' = uuid + 1
                 /\ res' = Ok(op, 201, commentId)
                 /\ UNCHANGED <<files, present, clock, pending>>

(***************************************************************************)
(* app.post('/api/news/categories'); `code` is a sequence of characters,   *)
(* empty when the request supplies none.                                   *)
(***************************************************************************)
\* A string the code inspects character by character is carried as the
\* sequence of its characters; Join gives the string.
RECURSIVE Join(_)
Join(chars) == IF chars = <<>> THEN "" ELSE Head(chars) \o Join(Tail(chars))

LowerLetters ==
    <<"a", "b", "c", "d", "e", "f", "g", "h", "i", "j", "k", "l", "m",
      "n", "o", "p", "q", "r", "s", "t", "u", "v", "w", "x", "y", "z">>
UpperLetters ==
    <<"A", "B", "C", "D", "E", "F", "G", "H", "I", "J", "K", "L", "M",
      "N", "O", "P", "Q", "R", "S", "T", "U", "V", "W", "X", "Y", "Z">>
Digits == {"0", "1", "2", "3", "4", "5", "6", "7", "8", "9"}
Range(seq) == {seq[i] : i \in 1..Len(seq)}

\* /^[a-z0-9_-]+$/.test(code)
CodeFormatOk(code) ==
    /\ Len(code) >= 1
    /\ \A i \in 1..Len(code) :
          code[i] \in Range(LowerLetters) \cup Digits \cup {"_", "-"}

\* newCategory with `slug: name`: the slug is not the one asked for.
NewCategoryNameAsSlug(categoryId, name, description, icon, categorySlug, now) ==
    [id |-> categoryId,
     content |-> name \o " - " \o description,
     content_type |-> "category",
     parent_id |-> UNDEF,
     children |-> <<>>,
     depth |-> 0,
     metadata |->
        [name |-> name,
         description |-> description,
         icon |-> icon,
         slug |-> name,
         _collection |-> "categories"],
     tags |-> <<"category">>,
     created_at |-> now,
     last_accessed_at |-> now]

NewCategory(categoryId, name, description, icon, categorySlug, now) ==
    [id |-> categoryId,
     content |-> name \o " - " \o description,
     content_type |-> "category",
     parent_id |-> UNDEF,
     children |-> <<>>,
     depth |-> 0,
     metadata |->
        [name |-> name,
         description |-> description,
         icon |-> icon,
         slug |-> categorySlug,
         _collection |-> "categories"],
     tags |-> <<"category">>,
     created_at |-> now,
     last_accessed_at |-> now]

CreateCategory(name, description, icon, slug, code) ==
    LET op == "createCategory"
        request == [name |-> name, description |-> description, icon |-> icon,
                    slug |-> slug, code |-> code]
        categorySlug == Or(slug, Join(code))
        categoryId == "cat_" \o Join(code)
        existingCategories == readCollectionFile("categories")
        newCategory == NewCategory(categoryId, name, description, icon,
                                   categorySlug, clock)
    IN  /\ req' = request
        /\ IF ~Truthy(name) \/ ~Truthy(description) \/ ~Truthy(icon)
            THEN Reject(Response(op, 400, "validation", "name,description,icon", "", ""))
            ELSE IF code = <<>>
            THEN Reject(Response(op, 400, "validation", "code", "", ""))
            ELSE IF ~CodeFormatOk(code)
            THEN Reject(Response(op, 400, "validation", "code", Join(code), ""))
            ELSE IF SomeId(existingCategories, categoryId)
            THEN Reject(Response(op, 400, "conflict", "id", categoryId, "categories"))
            ELSE /\ appendCollectionFile("categories", newCategory)
                 /\ res' = Ok(op, 201, categoryId)
                 /\ UNCHANGED <<rootFile, clock, uuid, pending>>

(***************************************************************************)
(* app.put('/api/news/categories/:id')                                     *)
(***************************************************************************)
\* The update without the `if (icon)`: an icon left out is stored as given.
UpdatedCategoryIconUnguarded(category, name, description, icon, slug, now) ==
    LET md0 == category.metadata
        md1 == IF Truthy(name) THEN ("name" :> name) @@ md0 ELSE md0
        md2 == IF Truthy(description)
               THEN ("description" :> description) @@ md1 ELSE md1
        md3 == ("icon" :> icon) @@ md2
        md4 == IF Truthy(slug) THEN ("slug" :> slug) @@ md3 ELSE md3
    IN  ("metadata" :> md4)
        @@ ("content" :> Get(md4, "name") \o " - " \o Get(md4, "description"))
        @@ ("last_accessed_at" :> now)
        @@ category

UpdatedCategory(category, name, description, icon, slug, now) ==
    LET md0 == category.metadata
        md1 == IF Truthy(name) THEN ("name" :> name) @@ md0 ELSE md0
        md2 == IF Truthy(description)
               THEN ("description" :> description) @@ md1 ELSE md1
        md3 == IF Truthy(icon) THEN ("icon" :> icon) @@ md2 ELSE md2
        md4 == IF Truthy(slug) THEN ("slug" :> slug) @@ md3 ELSE md3
    IN  ("metadata" :> md4)
        @@ ("content" :> Get(md4, "name") \o " - " \o Get(md4, "description"))
        @@ ("last_accessed_at" :> now)
        @@ category

UpdateCategory(id, name, description, icon, slug) ==
    LET op == "updateCategory"
        request == [id |-> id, name |-> name, description |-> description,
                    icon |-> icon, slug |-> slug]
        categories == readCollectionFile("categories")
        categoryIndex == FindIndex(categories, id)
    IN  /\ req' = request
        /\ IF categoryIndex = 0
            THEN Reject(Response(op, 404, "not_found", "", id, "categories"))
            ELSE /\ writeCollectionFile("categories",
                        [categories EXCEPT ![categoryIndex] =
                            UpdatedCategory(@, name, description, icon, slug, clock)])
                 /\ res' = Ok(op, 200, id)
                 /\ UNCHANGED <<rootFile, clock, uuid, pending>>

(***************************************************************************)
(* app.delete('/api/news/categories/:id')                                  *)
(***************************************************************************)
\* newsDocs.some(n => n.metadata?.category === id): the wrong metadata key.
hasReferencesWrongKey(newsDocs, id) ==
    \E i \in 1..Len(newsDocs) : Get(newsDocs[i].metadata, "category") = id

\* newsDocs.some(n => n.metadata?.categoryId === id)
hasReferences(newsDocs, id) ==
    \E i \in 1..Len(newsDocs) : Get(newsDocs[i].metadata, "categoryId") = id

DeleteCategory(id) ==
    LET op == "deleteCategory"
        request == [id |-> id]
        newsDocs == getDocumentsByCollection("news")
        categories == readCollectionFile("categories")
        filteredCategories == FilterOutId(categories, id)
    IN  /\ req' = request
        /\ IF hasReferences(newsDocs, id)
            THEN Reject(Response(op, 400, "restrict", "categoryId", id, "news"))
            ELSE IF Len(filteredCategories) = Len(categories)
            THEN Reject(Response(op, 404, "not_found", "", id, "categories"))
            ELSE /\ writeCollectionFile("categories", filteredCategories)
                 /\ res' = Ok(op, 200, id)
                 /\ UNCHANGED <<rootFile, clock, uuid, pending>>

(***************************************************************************)
(* app.post('/api/news/users'); `name` is a sequence of characters, empty  *)
(* when the request supplies none.                                         *)
(***************************************************************************)
validRoles == {"admin", "editor", "reader", "guest"}

\* ch.toLowerCase()
toLowerCase(ch) ==
    IF ch \in Range(UpperLetters)
    THEN LowerLetters[CHOOSE i \in 1..Len(UpperLetters) : UpperLetters[i] = ch]
    ELSE ch

\* name.toLowerCase().replace(/[^a-z0-9]/g, '_').substring(0, 20)
userCodeOf(name) ==
    LET lower == [i \in 1..Len(name) |-> toLowerCase(name[i])]
        replaced == [i \in 1..Len(name) |->
                        IF lower[i] \in Range(LowerLetters) \cup Digits
                        THEN lower[i] ELSE "_"]
    IN  Join(SubSeq(replaced, 1, IF Len(name) < 20 THEN Len(name) ELSE 20))

NewUser(userId, userCode, name, email, avatar, role, now) ==
    [id |-> userId,
     content |-> role \o " " \o Join(name),
     content_type |-> "user",
     parent_id |-> UNDEF,
     children |-> <<>>,
     depth |-> 0,
     metadata |->
        [name |-> Join(name),
         email |-> email,
         avatar |-> Or(avatar, "https://api.dicebear.com/7.x/avataaars/svg?seed="
                               \o userCode),
         role |-> role,
         _collection |-> "users"],
     tags |-> <<"user", role>>,
     created_at |-> now,
     last_accessed_at |-> now]

CreateUser(name, email, avatar, role) ==
    LET op == "createUser"
        request == [name |-> name, email |-> email, avatar |-> avatar, role |-> role]
        userCode == userCodeOf(name)
        userId == "user_" \o userCode \o "_" \o ToString(clock)
        existingUsers == readCollectionFile("users")
        newUser == NewUser(userId, userCode, name, email, avatar, role, clock)
    IN  /\ req' = request
        /\ IF name = <<>> \/ ~Truthy(email) \/ ~Truthy(role)
            THEN Reject(Response(op, 400, "validation", "name,email,role", "", ""))
            ELSE IF role \notin validRoles
            THEN Reject(Response(op, 400, "validation", "role", role, ""))
            ELSE IF \E i \in 1..Len(existingUsers) :
                        Get(existingUsers[i].metadata, "email") = email
            THEN Reject(Response(op, 400, "conflict", "email", email, "users"))
            ELSE /\ appendCollectionFile("users", newUser)
                 /\ res' = Ok(op, 201, userId)
                 /\ UNCHANGED <<rootFile, clock, uuid, pending>>

(***************************************************************************)
(* app.put('/api/news/users/:id')                                          *)
(***************************************************************************)
UpdatedUser(user, name, email, avatar, role, now) ==
    LET md0 == user.metadata
        md1 == IF Truthy(name) THEN ("name" :> name) @@ md0 ELSE md0
        md2 == IF Truthy(email) THEN ("email" :> email) @@ md1 ELSE md1
        md3 == IF Truthy(avatar) THEN ("avatar" :> avatar) @@ md2 ELSE md2
        md4 == IF Truthy(role) THEN ("role" :> role) @@ md3 ELSE md3
    IN  ("metadata" :> md4)
        @@ ("tags" :> IF Truthy(role) THEN <<"user", role>> ELSE user.tags)
        @@ ("content" :> Get(md4, "role") \o " " \o Get(md4, "name"))
        @@ ("last_accessed_at" :> now)
        @@ user

UpdateUser(id, name, email, avatar, role) ==
    LET op == "updateUser"
        request == [id |-> id, name |-> name, email |-> email, avatar |-> avatar,
                    role |-> role]
        users == readCollectionFile("users")
        userIndex == FindIndex(users, id)
    IN  /\ req' = request
        /\ IF Truthy(role) /\ role \notin validRoles
            THEN Reject(Response(op, 400, "validation", "role", role, ""))
            ELSE IF userIndex = 0
            THEN Reject(Response(op, 404, "not_found", "", id, "users"))
            ELSE IF /\ Truthy(email)
                    /\ \E i \in 1..Len(users) :
                          users[i].id # id /\ Get(users[i].metadata, "email") = email
            THEN Reject(Response(op, 400, "conflict", "email", email, "users"))
            ELSE /\ writeCollectionFile("users",
                        [users EXCEPT ![userIndex] =
                            UpdatedUser(@, name, email, avatar, role, clock)])
                 /\ res' = Ok(op, 200, id)
                 /\ UNCHANGED <<rootFile, clock, uuid, pending>>

(***************************************************************************)
(* app.delete('/api/news/users/:id')                                       *)
(***************************************************************************)
DeleteUser(id) ==
    LET op == "deleteUser"
        request == [id |-> id]
        users == readCollectionFile("users")
        filteredUsers == FilterOutId(users, id)
    IN  /\ req' = request
        /\ IF Len(filteredUsers) = Len(users)
            THEN Reject(Response(op, 404, "not_found", "", id, "users"))
            ELSE /\ writeCollectionFile("users", filteredUsers)
                 /\ res' = Ok(op, 200, id)
                 /\ UNCHANGED <<rootFile, clock, uuid, pending>>

\* Time passes between requests.
Tick ==
    /\ clock < MaxClock
    /\ clock' = clock + 1
    /\ UNCHANGED <<files, present, rootFile, uuid, req, res, pending>>

(***************************************************************************)
(* The population of foreign keys on the read paths.  An object-valued     *)
(* field is an object, null or undefined.                                  *)
(***************************************************************************)
NullObj == [null |-> TRUE]
UndefObj == [undefined |-> TRUE]

\* The truthiness test on an object-valued field.
TruthyObj(o) == o \notin {NullObj, UndefObj}

\* createLookupMap: new Map(items.map(item => [item.id, item])); of two
\* items with one id the later one stays.
createLookupMap(items) ==
    [id \in Ids(items) |->
        items[CHOOSE i \in 1..Len(items) :
                 /\ items[i].id = id
                 /\ \A j \in (i + 1)..Len(items) : items[j].id # id]]

\* map.get(id)
MapGet(map, id) == IF id \in DOMAIN map THEN map[id] ELSE UndefObj

\* The keys of a response body that may hold undefined; res.json leaves
\* them out.
ResponseStrOptKeys == {"categoryId", "authorId"}
ResponseObjOptKeys == {"category", "author"}

\* res.json(obj), as the client parses it.
Json(obj) ==
    LET dropped ==
            {k \in DOMAIN obj \cap ResponseStrOptKeys : obj[k] = UNDEF}
            \cup {k \in DOMAIN obj \cap ResponseObjOptKeys : obj[k] = UndefObj}
    IN  [k \in (DOMAIN obj) \ dropped |-> obj[k]]

\* categoryDoc ? {id, name, description, icon, slug} : null
EmbeddedCategory(categoryDoc) ==
    IF TruthyObj(categoryDoc)
    THEN [id |-> categoryDoc.id,
          name |-> Or(Get(categoryDoc.metadata, "name"), ""),
          description |-> Or(Get(categoryDoc.metadata, "description"), ""),
          icon |-> Or(Get(categoryDoc.metadata, "icon"), ""),
          slug |-> Or(Get(categoryDoc.metadata, "slug"), "")]
    ELSE NullObj

\* authorDoc && {id, name, email, avatar, role}: a falsy authorDoc is
\* passed on as it is, undefined included.
EmbeddedAuthorPassedOn(authorDoc) ==
    IF TruthyObj(authorDoc)
    THEN [id |-> authorDoc.id,
          name |-> Or(Get(authorDoc.metadata, "name"), ""),
          email |-> Or(Get(authorDoc.metadata, "email"), ""),
          avatar |-> Or(Get(authorDoc.metadata, "avatar"), ""),
          role |-> Or(Get(authorDoc.metadata, "role"), "")]
    ELSE authorDoc

\* authorDoc ? {id, name, email, avatar, role} : null
EmbeddedAuthor(authorDoc) ==
    IF TruthyObj(authorDoc)
    THEN [id |-> authorDoc.id,
          name |-> Or(Get(authorDoc.metadata, "name"), ""),
          email |-> Or(Get(authorDoc.metadata, "email"), ""),
          avatar |-> Or(Get(authorDoc.metadata, "avatar"), ""),
          role |-> Or(Get(authorDoc.metadata, "role"), "")]
    ELSE NullObj

\* The object listArticles and getArticle build for one article.
PopulateArticle(doc, categoryMap, userMap) ==
    LET catId == Get(doc.metadata, "categoryId")
        authId == Get(doc.metadata, "authorId")
        categoryDoc == IF Truthy(catId) THEN MapGet(categoryMap, catId) ELSE NullObj
        authorDoc == IF Truthy(authId) THEN MapGet(userMap, authId) ELSE NullObj
    IN  Json([id |-> doc.id,
              content |-> doc.content,
              title |-> Or(Get(doc.metadata, "title"), ""),
              categoryId |-> catId,
              authorId |-> authId,
              status |-> Or(Get(doc.metadata, "status"), "draft"),
              publishedAt |-> OrNum(GetNum(doc.metadata, "publishedAt"),
                                    doc.created_at),
              viewCount |-> OrNum(GetNum(doc.metadata, "viewCount"), 0),
              likeCount |-> OrNum(GetNum(doc.metadata, "likeCount"), 0),
              tags |-> doc.tags,
              created_at |-> doc.created_at,
              category |-> EmbeddedCategory(categoryDoc),
              author |-> EmbeddedAuthor(authorDoc)])

\* Array.prototype.sort with a comparator on a number key is stable: the
\* documents in ascending order of key, those of equal key in their order
\* in docs.  SortPosition is the place the i-th document takes.
SortPosition(keys, i) ==
    1 + Cardinality({j \in 1..Len(keys) :
                        keys[j] < keys[i] \/ (keys[j] = keys[i] /\ j < i)})

\* docs.sort(comparator), keys[i] being the sort key of docs[i].
SortAscending(docs, keys) ==
    [p \in 1..Len(docs) |->
        docs[CHOOSE i \in 1..Len(docs) : SortPosition(keys, i) = p]]

\* The key of listArticles' sort: (publishedAt || 0), descending.
ArticleSortKey(doc) == 0 - OrNum(GetNum(doc.metadata, "publishedAt"), 0)

\* articles.slice(offset, offset + limit)
Slice(seq, offset, limit) ==
    SubSeq(seq, offset + 1,
           IF offset + limit < Len(seq) THEN offset + limit ELSE Len(seq))

(***************************************************************************)
(* app.get('/api/news/articles'), for requests without `search`; a filter  *)
(* the request does not supply is UNDEF, `limit` and `offset` are the      *)
(* parsed numbers (UndefNum for NaN).                                      *)
(***************************************************************************)
ListArticles(limitIn, offsetIn, categoryId, authorId, status) ==
    LET limit == OrNum(limitIn, 100)
        offset == OrNum(offsetIn, 0)
        newsDocs == getDocumentsByCollection("news")
        categoryMap == createLookupMap(getDocumentsByCollection("categories"))
        userMap == createLookupMap(getDocumentsByCollection("users"))
        byCategory ==
            IF Truthy(categoryId)
            THEN SelectSeq(newsDocs,
                           LAMBDA a : Get(a.metadata, "categoryId") = categoryId)
            ELSE newsDocs
        byAuthor ==
            IF Truthy(authorId)
            THEN SelectSeq(byCategory,
                           LAMBDA a : Get(a.metadata, "authorId") = authorId)
            ELSE byCategory
        byStatus ==
            IF Truthy(status)
            THEN SelectSeq(byAuthor, LAMBDA a : Get(a.metadata, "status") = status)
            ELSE byAuthor
        sorted == SortAscending(byStatus,
                                [i \in 1..Len(byStatus) |->
                                    ArticleSortKey(byStatus[i])])
        page == Slice(sorted, offset, limit)
    IN  [articles |-> [i \in 1..Len(page) |->
                          PopulateArticle(page[i], categoryMap, userMap)],
         total |-> Len(sorted)]

(***************************************************************************)
(* app.get('/api/news/articles/:id')                                       *)
(***************************************************************************)
GetArticle(id) ==
    LET newsDocs == getDocumentsByCollection("news")
        categoryMap == createLookupMap(getDocumentsByCollection("categories"))
        userMap == createLookupMap(getDocumentsByCollection("users"))
        index == FindIndex(newsDocs, id)
    IN  IF index = 0
        THEN [status |-> 404, body |-> NullObj]
        ELSE [status |-> 200,
              body |-> PopulateArticle(newsDocs[index], categoryMap, userMap)]

(***************************************************************************)
(* app.get('/api/news/comments')                                           *)
(***************************************************************************)
CommentSortKey(doc) == doc.created_at

PopulateComment(doc, userMap) ==
    LET authId == Get(doc.metadata, "authorId")
        authorDoc == IF Truthy(authId) THEN MapGet(userMap, authId) ELSE NullObj
    IN  Json([id |-> doc.id,
              content |-> doc.content,
              newsId |-> Or(Get(doc.metadata, "newsId"), ""),
              authorId |-> authId,
              parentId |-> Or(Get(doc.metadata, "parentId"), NULL),
              likeCount |-> OrNum(GetNum(doc.metadata, "likeCount"), 0),
              created_at |-> doc.created_at,
              depth |-> doc.depth,
              children |-> doc.children,
              author |-> EmbeddedAuthor(authorDoc)])

ListComments(newsId) ==
    LET commentDocs == getDocumentsByCollection("comments")
        userMap == createLookupMap(getDocumentsByCollection("users"))
        filtered ==
            SelectSeq(commentDocs, LAMBDA c : Get(c.metadata, "newsId") = newsId)
        comments ==
            SortAscending(filtered,
                          [i \in 1..Len(filtered) |-> CommentSortKey(filtered[i])])
    IN  [i \in 1..Len(comments) |-> PopulateComment(comments[i], userMap)]

(***************************************************************************)
(* app.get('/api/news/categories')                                         *)
(***************************************************************************)
\* articleCountMap.get(id) || 0: the articles whose categoryId is truthy
\* and equal to id.
articleCount(newsDocs, id) ==
    Cardinality({i \in 1..Len(newsDocs) :
                    /\ Truthy(Get(newsDocs[i].metadata, "categoryId"))
                    /\ Get(newsDocs[i].metadata, "categoryId") = id})

ListCategories ==
    LET categoryDocs == getDocumentsByCollection("categories")
        newsDocs == getDocumentsByCollection("news")
    IN  [i \in 1..Len(categoryDocs) |->
            [id |-> categoryDocs[i].id,
             name |-> Or(Get(categoryDocs[i].metadata, "name"), ""),
             description |-> Or(Get(categoryDocs[i].metadata, "description"), ""),
             icon |-> Or(Get(categoryDocs[i].metadata, "icon"), ""),
             slug |-> Or(Get(categoryDocs[i].metadata, "slug"), ""),
             articleCount |-> articleCount(newsDocs, categoryDocs[i].id)]]

(***************************************************************************)
(* app.get('/api/news/users')                                              *)
(***************************************************************************)
ListUsers ==
    LET docs == getDocumentsByCollection("users")
    IN  [i \in 1..Len(docs) |->
            [id |-> docs[i].id,
             name |-> Or(Get(docs[i].metadata, "name"), ""),
             email |-> Or(Get(docs[i].metadata, "email"), ""),
             avatar |-> Or(Get(docs[i].metadata, "avatar"), ""),
             role |-> Or(Get(docs[i].metadata, "role"), "")]]

(***************************************************************************)
(* app.get('/api/news/stats')                                              *)
(***************************************************************************)
GetStats ==
    LET categoryDocs == getDocumentsByCollection("categories")
        userDocs == getDocumentsByCollection("users")
        newsDocs == getDocumentsByCollection("news")
        commentDocs == getDocumentsByCollection("comments")
        publishedCount ==
            Len(SelectSeq(newsDocs,
                          LAMBDA n : Get(n.metadata, "status") = "published"))
        draftCount ==
            Len(SelectSeq(newsDocs, LAMBDA n : Get(n.metadata, "status") = "draft"))
    IN  [categoryCount |-> Len(categoryDocs),
         userCount |-> Len(userDocs),
         articleCount |-> Len(newsDocs),
         commentCount |-> Len(commentDocs),
         publishedCount |-> publishedCount,
         draftCount |-> draftCount]

(***************************************************************************)
(* Overlapping requests.  A handler runs from one `await` to the next      *)
(* without interruption; while it waits for a file read, other handlers    *)
(* run.  A handler that waits is kept in `pending` with the program point  *)
(* it waits at (pc) and what its reads returned; one that has answered is  *)
(* kept with pc = "done" and its response.                                 *)
(***************************************************************************)
NoResponse == Response("none", 0, "none", "", "", "")

Handler(handle, op, request, pc, newsDocs, categories) ==
    [handle |-> handle, op |-> op, request |-> request, pc |-> pc,
     newsDocs |-> newsDocs, categories |-> categories, response |-> NoResponse]

\* The handler h goes on to wait at pc.
Await(h, pc, newsDocs, categories) ==
    /\ pending' = (pending \ {h})
                     \cup {[h EXCEPT !.pc = pc, !.newsDocs = newsDocs,
                                     !.categories = categories]}
    /\ UNCHANGED <<req, res>>

\* The handler h answers r.
Respond(h, r) ==
    /\ pending' = (pending \ {h}) \cup {[h EXCEPT !.pc = "done", !.response = r]}
    /\ req' = h.request
    /\ res' = r

\* const categories = readCollectionFile(..) without the await's delay: the
\* file as it is when the handler goes on.
RereadCategories(h) == readCollectionFile("categories")

\* const categories = await readCollectionFile(dbPath, 'categories'): what
\* the read returned when the handler goes on.
AwaitedCategories(h) == h.categories

\* app.post('/api/news/categories') up to `await readCollectionFile`.
CreateCategoryStart(name, description, icon, slug, code) ==
    LET op == "createCategory"
        request == [name |-> name, description |-> description, icon |-> icon,
                    slug |-> slug, code |-> code]
    IN  IF ~Truthy(name) \/ ~Truthy(description) \/ ~Truthy(icon)
        THEN /\ req' = request
             /\ Reject(Response(op, 400, "validation", "name,description,icon",
                                "", ""))
        ELSE IF code = <<>>
        THEN /\ req' = request
             /\ Reject(Response(op, 400, "validation", "code", "", ""))
        ELSE IF ~CodeFormatOk(code)
        THEN /\ req' = request
             /\ Reject(Response(op, 400, "validation", "code", Join(code), ""))
        ELSE /\ pending' = pending \cup
                    {Handler(Cardinality(pending) + 1, op, request, "categories",
                             <<>>, readCollectionFile("categories"))}
             /\ UNCHANGED <<files, present, rootFile, clock, uuid, req, res>>

\* app.post('/api/news/categories') from the duplicate check on.
CreateCategoryResume(h) ==
    LET op == "createCategory"
        request == h.request
        categorySlug == Or(request.slug, Join(request.code))
        categoryId == "cat_" \o Join(request.code)
        existingCategories == AwaitedCategories(h)
        newCategory == NewCategory(categoryId, request.name, request.description,
                                   request.icon, categorySlug, clock)
    IN  /\ h.op = op
        /\ h.pc = "categories"
        /\ IF SomeId(existingCategories, categoryId)
            THEN /\ Respond(h, Response(op, 400, "conflict", "id", categoryId,
                                        "categories"))
                 /\ UNCHANGED <<files, present, rootFile, clock, uuid>>
            ELSE /\ appendCollectionFile("categories", newCategory)
                 /\ Respond(h, Ok(op, 201, categoryId))
                 /\ UNCHANGED <<rootFile, clock, uuid>>

\* app.delete('/api/news/categories/:id') up to
\* `await getDocumentsByCollection`.
DeleteCategoryStart(id) ==
    /\ pending' = pending \cup
           {Handler(Cardinality(pending) + 1, "deleteCategory", [id |-> id],
                    "news", getDocumentsByCollection("news"), <<>>)}
    /\ UNCHANGED <<files, present, rootFile, clock, uuid, req, res>>

\* app.delete('/api/news/categories/:id') from the restrict check up to
\* `await readCollectionFile`.
DeleteCategoryChecked(h) ==
    LET op == "deleteCategory"
    IN  /\ h.op = op
        /\ h.pc = "news"
        /\ IF hasReferences(h.newsDocs, h.request.id)
            THEN Respond(h, Response(op, 400, "restrict", "categoryId",
                                     h.request.id, "news"))
            ELSE Await(h, "categories", h.newsDocs,
                       readCollectionFile("categories"))
        /\ UNCHANGED <<files, present, rootFile, clock, uuid>>

\* app.delete('/api/news/categories/:id') from the filter on.
DeleteCategoryResume(h) ==
    LET op == "deleteCategory"
        id == h.request.id
        categories == AwaitedCategories(h)
        filteredCategories == FilterOutId(categories, id)
    IN  /\ h.op = op
        /\ h.pc = "categories"
        /\ IF Len(filteredCategories) = Len(categories)
            THEN /\ Respond(h, Response(op, 404, "not_found", "", id, "categories"))
                 /\ UNCHANGED <<files, present, rootFile, clock, uuid>>
            ELSE /\ writeCollectionFile("categories", filteredCategories)
                 /\ Respond(h, Ok(op, 200, id))
                 /\ UNCHANGED <<rootFile, clock, uuid>>

\* app.post('/api/news/articles') up to `await Promise.all([..])`; the
\* handler keeps the categories and the users that the two reads return.
CreateArticleStart(title, content, categoryId, authorId) ==
    LET op == "createArticle"
        request == [title |-> title, content |-> content, categoryId |-> categoryId,
                    authorId |-> authorId, status |-> UNDEF, tags |-> NoTags]
    IN  IF ~Truthy(title) \/ ~Truthy(content)
        THEN /\ req' = request
             /\ Reject(Response(op, 400, "validation", "title,content", "", ""))
        ELSE IF ~Truthy(categoryId) \/ ~Truthy(authorId)
        THEN /\ req' = request
             /\ Reject(Response(op, 400, "validation", "categoryId,authorId", "", ""))
        ELSE /\ pending' = pending \cup
                    {("users" :> getDocumentsByCollection("users"))
                     @@ Handler(Cardinality(pending) + 1, op, request, "categories",
                                <<>>, getDocumentsByCollection("categories"))}
             /\ UNCHANGED <<files, present, rootFile, clock, uuid, req, res>>

\* app.post('/api/news/articles') from the foreign-key checks on.
CreateArticleResume(h) ==
    LET op == "createArticle"
        request == h.request
        articleId == "news_" \o ToString(uuid)
        newArticle == NewArticle(articleId, request.title, request.content,
                                 request.categoryId, request.authorId, "draft",
                                 <<>>, clock)
    IN  /\ h.op = op
        /\ h.pc = "categories"
        /\ IF ~SomeId(h.categories, request.categoryId)
            THEN /\ Respond(h, Response(op, 400, "foreign_key", "categoryId",
                                        request.categoryId, "categories"))
                 /\ UNCHANGED <<files, present, rootFile, clock, uuid>>
            ELSE IF ~SomeId(h.users, request.authorId)
            THEN /\ Respond(h, Response(op, 400, "foreign_key", "authorId",
                                        request.authorId, "users"))
                 /\ UNCHANGED <<files, present, rootFile, clock, uuid>>
            ELSE /\ uuid < MaxUuid
                 /\ appendCollectionFile("news", newArticle)
                 /\ uuid' = uuid + 1
                 /\ Respond(h, Ok(op, 201, articleId))
                 /\ UNCHANGED <<rootFile, clock>>

(***************************************************************************)
(* readJsonlFile, on the text of a file.  A line is a sequence of pieces:  *)
(* a run of whitespace, a complete JSON text, or a fragment that is no     *)
(* JSON text.  JSON.parse accepts one JSON text and nothing else.          *)
(***************************************************************************)
Whitespace == " "
Fragment == "{\"id\":"

\* JSON.parse on the complete JSON texts of the model.
JsonValue ==
    [text \in {"{\"id\":\"doc_a\"}", "{\"id\":\"doc_b\"}"} |->
        IF text = "{\"id\":\"doc_a\"}" THEN [id |-> "doc_a"] ELSE [id |-> "doc_b"]]

\* line.trim()
RECURSIVE Trim(_)
Trim(line) ==
    IF line = <<>> THEN <<>>
    ELSE IF Head(line) = Whitespace THEN Trim(Tail(line))
    ELSE IF line[Len(line)] = Whitespace THEN Trim(SubSeq(line, 1, Len(line) - 1))
    ELSE line

\* JSON.parse(trimmed) returns: the string is one JSON text.
Parses(trimmed) == Len(trimmed) = 1 /\ trimmed[1] \in DOMAIN JsonValue

\* try { results.push(JSON.parse(trimmed)) } catch (e) { } with the line
\* that fails taking the earlier results with it.
PushOrForget(results, trimmed) ==
    IF Parses(trimmed) THEN Append(results, JsonValue[trimmed[1]]) ELSE <<>>

\* try { results.push(JSON.parse(trimmed)) } catch (e) { console.warn(..) }
PushParsed(results, trimmed) ==
    IF Parses(trimmed) THEN Append(results, JsonValue[trimmed[1]]) ELSE results

\* for await (const line of rl) { ... }
RECURSIVE ReadLines(_, _)
ReadLines(lines, results) ==
    IF lines = <<>> THEN results
    ELSE LET trimmed == Trim(Head(lines))
         IN  ReadLines(Tail(lines),
                       IF trimmed # <<>> THEN PushParsed(results, trimmed)
                       ELSE results)

readJsonlFile(exists, lines) ==
    IF ~exists THEN <<>> ELSE ReadLines(lines, <<>>)

(***************************************************************************)
(* Storage failures.  A file read or write that fails throws; the          *)
(* handler's catch answers 500.  A write that fails leaves its file as it  *)
(* was.                                                                    *)
(***************************************************************************)
StorageFailure(op, step) == Response(op, 500, "storage", step, "", "")

\* The file operations of deleteArticle, in the order it performs them.
DeleteArticleSteps == {"readNews", "writeNews", "readComments", "writeComments"}

\* app.delete('/api/news/articles/:id') with the file operation `step`
\* failing when the handler comes to it.
DeleteArticleFailing(id, step) ==
    LET op == "deleteArticle"
        request == [id |-> id]
        newsDocs == files["news"]
        filteredDocs == FilterOutId(newsDocs, id)
        commentsDocs == getDocumentsByCollection("comments")
        filteredComments ==
            SelectSeq(commentsDocs, LAMBDA c : Get(c.metadata, "newsId") # id)
        writesComments ==
            Len(filteredComments) < Len(commentsDocs) /\ "comments" \in present
    IN  /\ req' = request
        /\ IF "news" \notin present
            THEN Reject(Response(op, 404, "no_collection", "", id, "news"))
            ELSE IF step = "readNews"
            THEN Reject(StorageFailure(op, step))
            ELSE IF Len(filteredDocs) = Len(newsDocs)
            THEN Reject(Response(op, 404, "not_found", "", id, "news"))
            ELSE IF step = "writeNews"
            THEN Reject(StorageFailure(op, step))
            ELSE IF step = "readComments" \/ writesComments
            THEN /\ files' = [files EXCEPT !["news"] = StringifyAll(filteredDocs)]
                 /\ res' = StorageFailure(op, step)
                 /\ UNCHANGED <<present, rootFile, clock, uuid, pending>>
            ELSE /\ files' = [files EXCEPT !["news"] = StringifyAll(filteredDocs)]
                 /\ res' = Ok(op, 200, id)
                 /\ UNCHANGED <<present, rootFile, clock, uuid, pending>>

\* The file operations of deleteCategory, in the order it performs them.
DeleteCategorySteps == {"readNews", "readCategories", "writeCategories"}

\* app.delete('/api/news/categories/:id') with the file operation `step`
\* failing when the handler comes to it.
DeleteCategoryFailing(id, step) ==
    LET op == "deleteCategory"
        request == [id |-> id]
        newsDocs == getDocumentsByCollection("news")
        categories == readCollectionFile("categories")
        filteredCategories == FilterOutId(categories, id)
    IN  /\ req' = request
        /\ IF step = "readNews"
            THEN Reject(StorageFailure(op, step))
            ELSE IF hasReferences(newsDocs, id)
            THEN Reject(Response(op, 400, "restrict", "categoryId", id, "news"))
            ELSE IF step = "readCategories"
            THEN Reject(StorageFailure(op, step))
            ELSE IF Len(filteredCategories) = Len(categories)
            THEN Reject(Response(op, 404, "not_found", "", id, "categories"))
            ELSE Reject(StorageFailure(op, step))

(***************************************************************************)
(* The stores a run starts from: an empty database directory, a legacy     *)
(* database that keeps every collection in the shared file, and a database *)
(* that keeps every collection in its dedicated file.                      *)
(***************************************************************************)
SeedCategory == Stringify(NewCategory("cat_l", "Tech", "D", "I", "l", 1))
SeedUser == Stringify(NewUser("user_l", "l", <<"L">>, "l@x", UNDEF, "editor", 1))
SeedArticle ==
    Stringify(NewArticle("news_l", "T0", "B0", "cat_l", "user_l", "published",
                         <<>>, 1))
SeedComment ==
    Stringify(NewComment("comment_l", "news_l", "user_l", "C0", NULL, 1))

NoFiles == [c \in Collections |-> <<>>]

Seeds ==
    {[files |-> NoFiles, present |-> {}, rootFile |-> <<>>],
     [files |-> NoFiles, present |-> {},
      rootFile |-> <<SeedCategory, SeedUser, SeedArticle, SeedComment>>],
     [files |-> [categories |-> <<SeedCategory>>, users |-> <<SeedUser>>,
                 news |-> <<SeedArticle>>, comments |-> <<SeedComment>>],
      present |-> Collections, rootFile |-> <<>>]}

Init ==
    /\ \E seed \in Seeds :
          /\ files = seed.files
          /\ present = seed.present
          /\ rootFile = seed.rootFile
    /\ clock = 1
    /\ uuid = 0
    /\ req = [none |-> TRUE]
    /\ res = Response("none", 0, "none", "", "", "")
    /\ pending = {}

(***************************************************************************)
(* The requests of a run.  An id a request names is one of the ids in the  *)
(* store or one that names nothing.                                        *)
(***************************************************************************)
CategoryIds == Ids(getDocumentsByCollection("categories")) \cup {"cat_x"}
UserIds == Ids(getDocumentsByCollection("users")) \cup {"user_x"}
NewsIds == Ids(getDocumentsByCollection("news")) \cup {"news_x"}
CommentIds == Ids(getDocumentsByCollection("comments")) \cup {"comment_x"}

\* The values the requests of a run carry; UNDEF is a field left out.
Titles == {UNDEF, "T1"}
Bodies == {UNDEF, "B1"}
CommentTexts == {UNDEF, "C1"}
CategoryNames == {UNDEF, "N1"}
CategoryCodes == {<<>>, <<"a">>, <<"A">>}
UserNames == {<<>>, <<"A", "l">>}
UserEmails == {"a@x", "l@x"}
UserRoles == {"editor", "root"}

(***************************************************************************)
(* Categories and articles: the six requests that create, update and       *)
(* delete them, one at a time.                                             *)
(***************************************************************************)
CreateArticleRequest ==
    \E title \in Titles, content \in Bodies,
       categoryId \in CategoryIds \cup {UNDEF}, authorId \in UserIds :
       /\ Len(readCollectionFile("news")) < MaxNews
       /\ CreateArticle(title, content, categoryId, authorId, UNDEF, NoTags)

UpdateArticleRequest ==
    \E id \in NewsIds, categoryId \in CategoryIds \cup {UNDEF} :
       UpdateArticle(id, UNDEF, UNDEF, categoryId, UNDEF, UNDEF, NoTags)

DeleteArticleRequest == \E id \in NewsIds : DeleteArticle(id)

CreateCategoryRequest ==
    \E name \in CategoryNames, code \in CategoryCodes :
       CreateCategory(name, "D1", "I1", UNDEF, code)

UpdateCategoryRequest ==
    \E id \in CategoryIds : UpdateCategory(id, "N2", UNDEF, UNDEF, UNDEF)

DeleteCategoryRequest == \E id \in CategoryIds : DeleteCategory(id)

NextCategories ==
    \/ CreateCategoryRequest
    \/ UpdateCategoryRequest
    \/ DeleteCategoryRequest
    \/ CreateArticleRequest
    \/ UpdateArticleRequest
    \/ DeleteArticleRequest

SpecCategories == Init /\ [][NextCategories]_vars

(***************************************************************************)
(* Articles and comments: articles are created and deleted, comments are   *)
(* created on them, one request at a time.  A parentId a request leaves    *)
(* out is UNDEF; it may also be the empty string.                          *)
(***************************************************************************)
\* An article by an author of the store in a category of the store.
PostArticleRequest ==
    \E categoryId \in Ids(getDocumentsByCollection("categories")),
       authorId \in Ids(getDocumentsByCollection("users")) :
       /\ Len(readCollectionFile("news")) < MaxNews
       /\ CreateArticle("T1", "B1", categoryId, authorId, UNDEF, NoTags)

\* A comment by a user of the store on an article of the store, at the top
\* level or in reply to a comment of the store.
PostCommentRequest ==
    \E newsId \in Ids(getDocumentsByCollection("news")),
       authorId \in Ids(getDocumentsByCollection("users")),
       parentId \in Ids(getDocumentsByCollection("comments")) \cup {UNDEF} :
       /\ Len(getDocumentsByCollection("comments")) < MaxComments
       /\ CreateComment(newsId, authorId, "C1", parentId)

NextComments ==
    \/ PostArticleRequest
    \/ DeleteArticleRequest
    \/ PostCommentRequest

SpecComments == Init /\ [][NextComments]_vars

(***************************************************************************)
(* Comment creation alone, over every combination of supplied, missing,    *)
(* resolving and dangling fields.                                          *)
(***************************************************************************)
CreateCommentRequest ==
    \E newsId \in NewsIds \cup {UNDEF}, authorId \in UserIds \cup {UNDEF},
       content \in CommentTexts, parentId \in CommentIds \cup {UNDEF, ""} :
       /\ Len(getDocumentsByCollection("comments")) < MaxComments
       /\ CreateComment(newsId, authorId, content, parentId)

NextCreateComment == CreateCommentRequest

SpecCreateComment == Init /\ [][NextCreateComment]_vars

(***************************************************************************)
(* Users and what they wrote: users are created and deleted, and articles  *)
(* and comments are posted by them.                                        *)
(***************************************************************************)
CreateUserRequest ==
    \E name \in UserNames, email \in UserEmails, role \in UserRoles :
       CreateUser(name, email, UNDEF, role)

DeleteUserRequest == \E id \in UserIds : DeleteUser(id)

NextUsers ==
    \/ CreateUserRequest
    \/ DeleteUserRequest
    \/ PostArticleRequest
    \/ PostCommentRequest

SpecUsers == Init /\ [][NextUsers]_vars

(***************************************************************************)
(* Articles over time: drafts and published articles are created, drafts   *)
(* are published, and time passes.                                         *)
(***************************************************************************)
WriteArticleRequest ==
    \E status \in {UNDEF, "published"},
       categoryId \in Ids(getDocumentsByCollection("categories")),
       authorId \in Ids(getDocumentsByCollection("users")) :
       /\ Len(readCollectionFile("news")) < MaxNews
       /\ CreateArticle("T1", "B1", categoryId, authorId, status, NoTags)

PublishArticleRequest ==
    \E id \in NewsIds :
       UpdateArticle(id, UNDEF, UNDEF, UNDEF, UNDEF, "published", NoTags)

NextTimeline ==
    \/ WriteArticleRequest
    \/ PublishArticleRequest
    \/ Tick

SpecTimeline == Init /\ [][NextTimeline]_vars

(***************************************************************************)
(* The read paths over stores whose articles carry every kind of           *)
(* reference: the key missing, null, the id of a document of the target    *)
(* collection, and an id that names nothing.                               *)
(***************************************************************************)
CategoryRefs == {UNDEF, NULL, "cat_l", "cat_x"}
AuthorRefs == {UNDEF, NULL, "user_l", "user_x"}

\* A line of news/documents.jsonl; a reference that is UNDEF has no key.
StoredArticle(id, categoryId, authorId) ==
    LET doc == NewArticle(id, "T0", "B0", categoryId, authorId, "published",
                          <<>>, 1)
        missing == {k \in {"categoryId", "authorId"} : doc.metadata[k] = UNDEF}
    IN  Stringify([doc EXCEPT !.metadata =
                      [k \in (DOMAIN doc.metadata) \ missing |-> doc.metadata[k]]])

\* The news files of 1..MaxStored articles.
StoredNews ==
    UNION {{[i \in 1..n |-> StoredArticle("news_s" \o ToString(i),
                                          refs[i][1], refs[i][2])] :
               refs \in [1..n -> CategoryRefs \X AuthorRefs]} :
           n \in 1..MaxStored}

InitPopulate ==
    /\ \E news \in StoredNews :
          files = [categories |-> <<SeedCategory>>, users |-> <<SeedUser>>,
                   news |-> news, comments |-> <<>>]
    /\ present = Collections
    /\ rootFile = <<>>
    /\ clock = 1
    /\ uuid = 0
    /\ req = [none |-> TRUE]
    /\ res = Response("none", 0, "none", "", "", "")
    /\ pending = {}

GetArticleRequest ==
    \E id \in NewsIds :
       /\ req' = [id |-> id]
       /\ res' = [op |-> "getArticle", status |-> GetArticle(id).status,
                  body |-> GetArticle(id).body]
       /\ UNCHANGED <<files, present, rootFile, clock, uuid, pending>>

ListArticlesRequest ==
    \E limit \in {UndefNum, 1}, categoryId \in {UNDEF, "cat_x"} :
       /\ req' = [limit |-> limit, categoryId |-> categoryId]
       /\ res' = [op |-> "listArticles", status |-> 200,
                  body |-> ListArticles(limit, UndefNum, categoryId, UNDEF, UNDEF)]
       /\ UNCHANGED <<files, present, rootFile, clock, uuid, pending>>

NextPopulate ==
    \/ GetArticleRequest
    \/ ListArticlesRequest
    \/ DeleteUserRequest

SpecPopulate == InitPopulate /\ [][NextPopulate]_vars

(***************************************************************************)
(* The categories collection alone: categories are created, under a new    *)
(* code or the code of a category of the store, updated and deleted.       *)
(***************************************************************************)
AddCategoryRequest ==
    \E name \in CategoryNames, slug \in {UNDEF, "s1"},
       code \in CategoryCodes \cup {<<"l">>} :
       CreateCategory(name, "D1", "I1", slug, code)

NextCategoryStore ==
    \/ AddCategoryRequest
    \/ UpdateCategoryRequest
    \/ DeleteCategoryRequest

SpecCategoryStore == Init /\ [][NextCategoryStore]_vars

(***************************************************************************)
(* The users collection alone: users are created, given another email or   *)
(* role, and deleted.                                                      *)
(***************************************************************************)
UpdateUserRequest ==
    \E id \in UserIds, email \in UserEmails \cup {UNDEF},
       role \in UserRoles \cup {UNDEF} :
       UpdateUser(id, UNDEF, email, UNDEF, role)

NextUserStore ==
    \/ CreateUserRequest
    \/ UpdateUserRequest
    \/ DeleteUserRequest

SpecUserStore == Init /\ [][NextUserStore]_vars

(***************************************************************************)
(* Articles of every status, and the statistics over them: the request     *)
(* body's status is stored as it comes.                                    *)
(***************************************************************************)
ArticleStatuses == {UNDEF, "draft", "published", "archived"}

WriteStatusRequest ==
    \E status \in ArticleStatuses,
       categoryId \in Ids(getDocumentsByCollection("categories")),
       authorId \in Ids(getDocumentsByCollection("users")) :
       /\ Len(readCollectionFile("news")) < MaxNews
       /\ CreateArticle("T1", "B1", categoryId, authorId, status, NoTags)

SetStatusRequest ==
    \E id \in NewsIds, status \in ArticleStatuses :
       UpdateArticle(id, UNDEF, UNDEF, UNDEF, UNDEF, status, NoTags)

GetStatsRequest ==
    /\ req' = [stats |-> TRUE]
    /\ res' = [op |-> "getStats", status |-> 200, body |-> GetStats]
    /\ UNCHANGED <<files, present, rootFile, clock, uuid, pending>>

NextStats ==
    \/ WriteStatusRequest
    \/ SetStatusRequest
    \/ GetStatsRequest

SpecStats == Init /\ [][NextStats]_vars

(***************************************************************************)
(* The collection reader over any contents of a collection's dedicated     *)
(* file and of the shared file: each file holds up to MaxLines documents,  *)
(* an id may occur in both files and more than once in one of them, and a  *)
(* document of the shared file is tagged for one collection or another.    *)
(***************************************************************************)
MergeIds == {"doc_a", "doc_b"}

\* A line of a documents.jsonl: the content tells which file it is in.
MergeDocument(id, collection, content) ==
    [id |-> id, content |-> content, metadata |-> [_collection |-> collection]]

SeqsUpTo(S, n) == UNION {[1..k -> S] : k \in 0..n}

DedicatedFiles ==
    SeqsUpTo({MergeDocument(id, "categories", "dedicated") : id \in MergeIds},
             MaxLines)

SharedFiles ==
    SeqsUpTo({MergeDocument(id, collection, "shared") :
                 id \in MergeIds, collection \in {"categories", "users"}},
             MaxLines)

InitMerge ==
    /\ \E dedicated \in DedicatedFiles, shared \in SharedFiles :
          /\ files = [NoFiles EXCEPT !["categories"] = dedicated]
          /\ present \in {{}, {"categories"}}
          /\ present = {} => dedicated = <<>>
          /\ rootFile = shared
    /\ clock = 1
    /\ uuid = 0
    /\ req = [none |-> TRUE]
    /\ res = Response("none", 0, "none", "", "", "")
    /\ pending = {}

ReadCollectionRequest ==
    \E collection \in {"categories", "users"} :
       /\ req' = [collection |-> collection]
       /\ res' = [op |-> "getDocumentsByCollection", status |-> 200,
                  body |-> getDocumentsByCollection(collection)]
       /\ UNCHANGED <<files, present, rootFile, clock, uuid, pending>>

NextMerge == ReadCollectionRequest

SpecMerge == InitMerge /\ [][NextMerge]_vars

(***************************************************************************)
(* Category requests that overlap: up to MaxOverlap createCategory and     *)
(* deleteCategory requests, their steps interleaved in every order.        *)
(***************************************************************************)
CreateCategoryStartRequest ==
    \E name \in CategoryNames, code \in CategoryCodes \cup {<<"l">>} :
       /\ Cardinality(pending) < MaxOverlap
       /\ CreateCategoryStart(name, "D1", "I1", UNDEF, code)

CreateCategoryResumeStep == \E h \in pending : CreateCategoryResume(h)

DeleteCategoryStartRequest ==
    \E id \in CategoryIds :
       /\ Cardinality(pending) < MaxOverlap
       /\ DeleteCategoryStart(id)

DeleteCategoryCheckedStep == \E h \in pending : DeleteCategoryChecked(h)

DeleteCategoryResumeStep == \E h \in pending : DeleteCategoryResume(h)

NextOverlap ==
    \/ CreateCategoryStartRequest
    \/ CreateCategoryResumeStep
    \/ DeleteCategoryStartRequest
    \/ DeleteCategoryCheckedStep
    \/ DeleteCategoryResumeStep

SpecOverlap == Init /\ [][NextOverlap]_vars

(***************************************************************************)
(* The six create and update requests that can be turned down, one at a    *)
(* time, over supplied, missing, malformed, duplicate and dangling fields. *)
(***************************************************************************)
\* An article by the seed user, with or without its title, body and category.
SubmitArticleRequest ==
    \E title \in Titles, content \in Bodies, categoryId \in {UNDEF, "cat_l"} :
       /\ Len(readCollectionFile("news")) < MaxStored
       /\ CreateArticle(title, content, categoryId, "user_l", UNDEF, NoTags)

\* A comment by the seed user on the seed article, with or without its text
\* and its article.
SubmitCommentRequest ==
    \E newsId \in {UNDEF, "news_l"}, content \in CommentTexts :
       /\ Len(getDocumentsByCollection("comments")) < MaxStored
       /\ CreateComment(newsId, "user_l", content, UNDEF)

\* The category of an article, which may not exist, is set to the seed's.
ReviseArticleRequest ==
    \E id \in NewsIds :
       UpdateArticle(id, UNDEF, UNDEF, "cat_l", UNDEF, UNDEF, NoTags)

NextRejects ==
    \/ CreateCategoryRequest
    \/ CreateUserRequest
    \/ UpdateUserRequest
    \/ SubmitArticleRequest
    \/ ReviseArticleRequest
    \/ SubmitCommentRequest

SpecRejects == Init /\ [][NextRejects]_vars

(***************************************************************************)
(* readJsonlFile alone: the file is missing, or holds up to MaxLines       *)
(* lines, each blank, a JSON text, a fragment, or two JSON texts run       *)
(* together, with up to MaxPad pieces of whitespace on either side.        *)
(***************************************************************************)
Pads == {[i \in 1..k |-> Whitespace] : k \in 0..MaxPad}

LineBodies ==
    {<<>>, <<Fragment>>, <<"{\"id\":\"doc_a\"}", "{\"id\":\"doc_b\"}">>}
    \cup {<<text>> : text \in DOMAIN JsonValue}

FileLines ==
    {left \o body \o right : left \in Pads, body \in LineBodies, right \in Pads}

InitReadLines ==
    /\ \E exists \in BOOLEAN, lines \in SeqsUpTo(FileLines, MaxLines) :
          /\ ~exists => lines = <<>>
          /\ req = [filePath |-> "categories/documents.jsonl",
                    exists |-> exists, lines |-> lines]
    /\ files = NoFiles
    /\ present = {}
    /\ rootFile = <<>>
    /\ clock = 1
    /\ uuid = 0
    /\ res = Response("none", 0, "none", "", "", "")
    /\ pending = {}

ReadJsonlFileRequest ==
    /\ res.op = "none"
    /\ res' = [op |-> "readJsonlFile", status |-> 200,
               body |-> readJsonlFile(req.exists, req.lines)]
    /\ UNCHANGED <<files, present, rootFile, clock, uuid, req, pending>>

NextReadLines == ReadJsonlFileRequest

SpecReadLines == InitReadLines /\ [][NextReadLines]_vars

(***************************************************************************)
(* Deletes over a store that may fail: articles and comments are posted,   *)
(* and articles and categories are deleted, with or without one of the     *)
(* delete's file operations failing.                                       *)
(***************************************************************************)
DeleteArticleFailingRequest ==
    \E id \in NewsIds, step \in DeleteArticleSteps : DeleteArticleFailing(id, step)

DeleteCategoryFailingRequest ==
    \E id \in CategoryIds, step \in DeleteCategorySteps :
       DeleteCategoryFailing(id, step)

NextStorageFailure ==
    \/ PostArticleRequest
    \/ PostCommentRequest
    \/ DeleteArticleRequest
    \/ DeleteArticleFailingRequest
    \/ DeleteCategoryRequest
    \/ DeleteCategoryFailingRequest

SpecStorageFailure == Init /\ [][NextStorageFailure]_vars

(***************************************************************************)
(* Updates: the articles, categories and users of a store are updated,     *)
(* each request with some of the fields supplied and the others left out.  *)
(***************************************************************************)
EditArticleRequest ==
    \E id \in NewsIds, title \in {UNDEF, "T2"}, content \in {UNDEF, "B2"} :
       UpdateArticle(id, title, content, UNDEF, UNDEF, UNDEF, NoTags)

EditCategoryRequest ==
    \E id \in CategoryIds, name \in {UNDEF, "N2"}, slug \in {UNDEF, "s2"} :
       UpdateCategory(id, name, UNDEF, UNDEF, slug)

\* The second document of each collection.
SecondDocument ==
    [categories |-> Stringify(NewCategory("cat_a", "N1", "D1", "I1", "a", 1)),
     users |-> Stringify(NewUser("user_Al_1", "Al", <<"A", "l">>, "a@x", UNDEF,
                                 "editor", 1)),
     news |-> Stringify(NewArticle("news_0", "T1", "B1", "cat_l", "user_l",
                                   "draft", <<>>, 1))]

\* A store of dedicated files, written at time 1, in which one of the three
\* collections holds a second document; it is now time 2.
InitUpdates ==
    /\ \E collection \in DOMAIN SecondDocument :
          files =
             [[categories |-> <<SeedCategory>>, users |-> <<SeedUser>>,
               news |-> <<SeedArticle>>, comments |-> <<SeedComment>>]
                 EXCEPT ![collection] = Append(@, SecondDocument[collection])]
    /\ present = Collections
    /\ rootFile = <<>>
    /\ clock = 2
    /\ uuid = 1
    /\ req = [none |-> TRUE]
    /\ res = Response("none", 0, "none", "", "", "")
    /\ pending = {}

NextUpdates ==
    \/ EditArticleRequest
    \/ EditCategoryRequest
    \/ UpdateUserRequest

SpecUpdates == InitUpdates /\ [][NextUpdates]_vars

(***************************************************************************)
(* An article is created while its category is deleted: categories are     *)
(* created one request at a time, and up to MaxOverlap createArticle and   *)
(* deleteCategory handlers run, each going on from an `await` when its     *)
(* turn comes.                                                             *)
(***************************************************************************)
CreateArticleStartRequest ==
    \E title \in Titles, categoryId \in CategoryIds :
       /\ Cardinality(pending) < MaxOverlap
       /\ Len(readCollectionFile("news")) < MaxStored
       /\ CreateArticleStart(title, "B1", categoryId, "user_l")

CreateArticleResumeStep == \E h \in pending : CreateArticleResume(h)

NextArticleOverlap ==
    \/ CreateCategoryRequest
    \/ CreateArticleStartRequest
    \/ CreateArticleResumeStep
    \/ DeleteCategoryStartRequest
    \/ DeleteCategoryCheckedStep
    \/ DeleteCategoryResumeStep

SpecArticleOverlap == Init /\ [][NextArticleOverlap]_vars

(***************************************************************************)
(* The life of an article: drafts and published articles are created,     *)
(* an article is published, withdrawn to draft and published again, and    *)
(* time passes.                                                            *)
(***************************************************************************)
RestatusArticleRequest ==
    \E id \in NewsIds, status \in {"draft", "published"} :
       UpdateArticle(id, UNDEF, UNDEF, UNDEF, UNDEF, status, NoTags)

NextLifecycle ==
    \/ WriteArticleRequest
    \/ RestatusArticleRequest
    \/ Tick

SpecLifecycle == Init /\ [][NextLifecycle]_vars

(***************************************************************************)
(* The collections as the collection reader returns them.                  *)
(***************************************************************************)
Categories == getDocumentsByCollection("categories")
Users == getDocumentsByCollection("users")
News == getDocumentsByCollection("news")
Comments == getDocumentsByCollection("comments")

\* Some article of the news collection has categoryId = id.
ArticleReferencesCategory(id) ==
    \E i \in 1..Len(News) :
       "categoryId" \in DOMAIN News[i].metadata /\ News[i].metadata.categoryId = id

\* A step of the handler `op`: it answers the request req' with res'.
\* (Only Tick changes the clock, and it leaves req and res alone.)
Handles(op) == clock' = clock /\ res'.op = op

\* C1 (Restrict-blocks): a deleteCategory(C) issued while some article of
\* the news collection has categoryId = C answers 400 with the restrict
\* error, and leaves the categories and the news collection, and every
\* file, as they were.
C1_RestrictBlocks ==
    [][(Handles("deleteCategory") /\ ArticleReferencesCategory(req'.id)) =>
          /\ res'.status = 400
          /\ res'.kind = "restrict"
          /\ Categories' = Categories
          /\ News' = News
          /\ UNCHANGED <<files, present, rootFile>>]_vars

\* A deleteCategory(C) was refused by the restrict check, and C and an
\* article that references it are in the store.
C1_Witness ==
    /\ res.op = "deleteCategory"
    /\ res.kind = "restrict"
    /\ req.id \in Ids(Categories)
    /\ ArticleReferencesCategory(req.id)

\* The createArticle request r names a category or an author that is not
\* in its collection.
C4_Unresolved(r) ==
    r.categoryId \notin Ids(Categories) \/ r.authorId \notin Ids(Users)

\* The createArticle request r supplies its four required fields.
C4_WellFormed(r) ==
    /\ r.title \notin {UNDEF, NULL, ""}
    /\ r.content \notin {UNDEF, NULL, ""}
    /\ r.categoryId \notin {UNDEF, NULL, ""}
    /\ r.authorId \notin {UNDEF, NULL, ""}

\* The response names the field, the offending id and the target collection.
C4_NamesViolation(r) ==
    /\ res'.kind = "foreign_key"
    /\ \/ /\ r.categoryId \notin Ids(Categories)
          /\ res'.field = "categoryId"
          /\ res'.value = r.categoryId
          /\ res'.target = "categories"
       \/ /\ r.authorId \notin Ids(Users)
          /\ res'.field = "authorId"
          /\ res'.value = r.authorId
          /\ res'.target = "users"

\* Nothing was written: every file and every collection is as it was.
NothingWritten ==
    /\ UNCHANGED <<files, present, rootFile>>
    /\ Categories' = Categories
    /\ Users' = Users
    /\ News' = News
    /\ Comments' = Comments

\* C4 (FK-create, article), amended: a createArticle whose categoryId is
\* not the id of a category, or whose authorId is not the id of a user, is
\* answered 400 and appends nothing (every collection and file unchanged);
\* when the request supplies title, content, categoryId and authorId, the
\* error is the foreign-key violation naming the field, the offending id
\* and the target collection.
C4_FkCreateArticle ==
    [][(Handles("createArticle") /\ C4_Unresolved(req')) =>
          /\ res'.status = 400
          /\ NothingWritten
          /\ C4_WellFormed(req') => C4_NamesViolation(req')]_vars

\* A createArticle naming an existing category and no existing user was
\* refused with the foreign-key violation on authorId.
C4_Witness ==
    /\ res.op = "createArticle"
    /\ res.kind = "foreign_key"
    /\ res.field = "authorId"
    /\ req.authorId \notin Ids(Users)
    /\ req.categoryId \in Ids(Categories)

\* C4 as stated, on the requests that supply both ids: every createArticle
\* whose categoryId or authorId resolves to no document fails with the
\* foreign-key violation naming the field, the offending id and the target
\* collection, and appends nothing.
C4_AsStated ==
    [][(/\ Handles("createArticle")
        /\ C4_Unresolved(req')
        /\ req'.categoryId \notin {UNDEF, NULL, ""}
        /\ req'.authorId \notin {UNDEF, NULL, ""}) =>
          /\ res'.status = 400
          /\ NothingWritten
          /\ C4_NamesViolation(req')]_vars

\* C6 (category reference invariant): every article of the news collection
\* whose categoryId is not null names a document of the categories
\* collection.
C6_CategoryReferenceInvariant ==
    \A i \in 1..Len(News) :
       LET categoryId == Get(News[i].metadata, "categoryId")
       IN  categoryId \notin {NULL, UNDEF} => categoryId \in Ids(Categories)

\* A category was deleted while the store holds an article created by a
\* request, whose category is still there.
C6_Witness ==
    /\ res.op = "deleteCategory"
    /\ res.status = 200
    /\ \E i \in 1..Len(News) :
          /\ News[i].id # "news_l"
          /\ Get(News[i].metadata, "categoryId") \in Ids(Categories)

\* The ids of the documents a run starts with; every other id was given by
\* a create request of the run.
SeedIds == {"cat_l", "user_l", "news_l", "comment_l"}

\* The comment c is a top-level comment on the article id.
RootCommentOn(c, id) ==
    /\ Get(c.metadata, "newsId") = id
    /\ Get(c.metadata, "parentId") \in {NULL, UNDEF}

\* The comment c is a reply to the comment parent on the article id.
ReplyTo(c, parent, id) ==
    /\ Get(c.metadata, "newsId") = id
    /\ Get(c.metadata, "parentId") = parent.id

\* C2 (Cascade-closure): a successful deleteArticle(A), for an article A
\* created by createArticle that has a root comment c1 and a reply c2 to c1,
\* both created by createComment, leaves getArticle(A) not found,
\* listComments(A) empty and neither c1 nor c2 in the comments collection.
C2_CascadeClosure ==
    [][\A id \in Ids(News), i, j \in 1..Len(Comments) :
          (/\ Handles("deleteArticle")
           /\ res'.status = 200
           /\ req'.id = id
           /\ id \notin SeedIds
           /\ Comments[i].id \notin SeedIds
           /\ Comments[j].id \notin SeedIds
           /\ RootCommentOn(Comments[i], id)
           /\ ReplyTo(Comments[j], Comments[i], id)) =>
             /\ GetArticle(id)'.status = 404
             /\ ListComments(id)' = <<>>
             /\ Comments[i].id \notin Ids(Comments')
             /\ Comments[j].id \notin Ids(Comments')]_vars

\* The createComment request r names an article, a user or (with a parentId
\* other than `absent`) a parent comment that is not in its collection.
C5_Unresolved(r, absent) ==
    \/ r.newsId \notin Ids(News)
    \/ r.authorId \notin Ids(Users)
    \/ r.parentId \notin absent /\ r.parentId \notin Ids(Comments)

\* The createComment request r supplies its three required fields.
C5_WellFormed(r) ==
    /\ r.content \notin {UNDEF, NULL, ""}
    /\ r.newsId \notin {UNDEF, NULL, ""}
    /\ r.authorId \notin {UNDEF, NULL, ""}

\* The response names the field, the offending id and the target collection.
C5_NamesViolation(r) ==
    /\ res'.kind = "foreign_key"
    /\ \/ /\ r.newsId \notin Ids(News)
          /\ res'.field = "newsId"
          /\ res'.value = r.newsId
          /\ res'.target = "news"
       \/ /\ r.authorId \notin Ids(Users)
          /\ res'.field = "authorId"
          /\ res'.value = r.authorId
          /\ res'.target = "users"
       \/ /\ r.parentId \notin Ids(Comments)
          /\ res'.field = "parentId"
          /\ res'.value = r.parentId
          /\ res'.target = "comments"

\* The comment of request r was persisted exactly once, under the id the
\* response gives: the comments collection gained that one document, in
\* one file, and nothing else changed.
C5_Persisted(r) ==
    /\ res'.status = 201
    /\ Len(Comments') = Len(Comments) + 1
    /\ SubSeq(Comments', 1, Len(Comments)) = Comments
    /\ res'.value \notin Ids(Comments)
    /\ LET c == Comments'[Len(Comments')]
       IN  /\ c.id = res'.value
           /\ c.content = r.content
           /\ c.metadata.newsId = r.newsId
           /\ c.metadata.authorId = r.authorId
    /\ Cardinality({i \in 1..Len(rootFile') : rootFile'[i].id = res'.value})
          + Cardinality({i \in 1..Len(files'["comments"]) :
                            files'["comments"][i].id = res'.value}) = 1
    /\ Categories' = Categories
    /\ Users' = Users
    /\ News' = News

\* The comment the last createComment persisted is returned, once, by
\* listComments of the article the request names.
C5_Listed ==
    (res.op = "createComment" /\ res.status = 201) =>
       LET listed == ListComments(req.newsId)
       IN  Cardinality({i \in 1..Len(listed) : listed[i].id = res.value}) = 1

\* C5 (FK-create, comment), amended: a createComment whose newsId is not
\* the id of an article, or whose authorId is not the id of a user, or whose
\* parentId is neither null nor empty and is not the id of a comment, is
\* answered 400 and writes nothing; when the request supplies content,
\* newsId and authorId, the error is the foreign-key violation naming the
\* field, the offending id and the target collection.  A createComment that
\* supplies content and whose three references resolve is persisted exactly
\* once and returned by listComments(newsId).
C5_FkCreateComment ==
    /\ []C5_Listed
    /\ [][Handles("createComment") =>
            /\ C5_Unresolved(req', {NULL, UNDEF, ""}) =>
                  /\ res'.status = 400
                  /\ NothingWritten
                  /\ C5_WellFormed(req') => C5_NamesViolation(req')
            /\ (~C5_Unresolved(req', {NULL, UNDEF, ""}) /\ C5_WellFormed(req')) =>
                  C5_Persisted(req')]_vars

\* A createComment naming an existing article and user and no existing
\* parent was refused with the foreign-key violation on parentId, in a store
\* that holds a comment an earlier createComment persisted.
C5_Witness ==
    /\ res.op = "createComment"
    /\ res.kind = "foreign_key"
    /\ res.field = "parentId"
    /\ req.parentId \notin Ids(Comments)
    /\ req.newsId \in Ids(News)
    /\ req.authorId \in Ids(Users)
    /\ \E i \in 1..Len(Comments) : Comments[i].id \notin SeedIds

\* C5 as stated, on the requests that supply newsId and authorId and a
\* parentId that is not empty: every createComment with an unresolved
\* newsId, authorId or non-null parentId fails with the foreign-key
\* violation and writes nothing.
C5_AsStated ==
    [][(/\ Handles("createComment")
        /\ C5_Unresolved(req', {NULL, UNDEF})
        /\ req'.newsId \notin {UNDEF, NULL, ""}
        /\ req'.authorId \notin {UNDEF, NULL, ""}
        /\ req'.parentId # "") =>
          /\ res'.status = 400
          /\ NothingWritten
          /\ C5_NamesViolation(req')]_vars

\* C7 (comment reference invariant under cascade): every comment of the
\* comments collection has a newsId that names an article of the news
\* collection, and a parentId that is null (or absent, or empty) or names a
\* comment of the comments collection.
C7_CommentReferenceInvariant ==
    \A i \in 1..Len(Comments) :
       /\ Get(Comments[i].metadata, "newsId") \in Ids(News)
       /\ Get(Comments[i].metadata, "parentId") \notin {NULL, UNDEF, ""} =>
             Get(Comments[i].metadata, "parentId") \in Ids(Comments)

\* C8 (comment tree): in the list listComments returns for an article, no
\* comment whose parentId is the id of another returned comment stands at
\* the top level.
C8_CommentTree ==
    \A id \in Ids(News) :
       LET comments == ListComments(id)
       IN  \A i, j \in 1..Len(comments) : comments[i].parentId # comments[j].id

\* C3 (Set-null): after a successful deleteUser(U) no article and no comment
\* of the store has authorId = U, and getArticle of every article U had
\* written succeeds with authorId = null and author = null.
C3_SetNull ==
    [][\A id \in Ids(Users), a \in Ids(News) :
          (/\ Handles("deleteUser")
           /\ res'.status = 200
           /\ req'.id = id
           /\ \E i \in 1..Len(News) :
                 News[i].id = a /\ Get(News[i].metadata, "authorId") = id) =>
             /\ \A i \in 1..Len(News') : Get(News'[i].metadata, "authorId") # id
             /\ \A i \in 1..Len(Comments') :
                   Get(Comments'[i].metadata, "authorId") # id
             /\ GetArticle(a)'.status = 200
             /\ Get(GetArticle(a)'.body, "authorId") = NULL
             /\ GetArticle(a)'.body.author = NullObj]_vars

\* The effective time of a returned article: the response carries
\* publishedAt when it is set and created_at otherwise.
C9_Effective(article) == article.publishedAt

\* C9 (article ordering): whatever the status filter, of two articles that
\* listArticles returns the earlier in the list has the greater or equal
\* effective time.
C9_ArticleOrdering ==
    \A status \in {UNDEF, "draft", "published"} :
       LET articles ==
               ListArticles(UndefNum, UndefNum, UNDEF, UNDEF, status).articles
       IN  \A i, j \in 1..Len(articles) :
              i < j => C9_Effective(articles[i]) >= C9_Effective(articles[j])

\* The articles the last read returned.
C10_Returned ==
    IF res.op = "getArticle" /\ res.status = 200 THEN {res.body}
    ELSE IF res.op = "listArticles" THEN Range(res.body.articles)
    ELSE {}

\* The embedded object of the document doc: its id and the given metadata.
C10_Embedded(doc, keys) ==
    [k \in keys \cup {"id"} |-> IF k = "id" THEN doc.id ELSE doc.metadata[k]]

\* The document of the sequence docs with the given id.
C10_Document(docs, id) == docs[CHOOSE i \in 1..Len(docs) : docs[i].id = id]

\* C10 (population never fails on dangling references): every article that
\* listArticles or getArticle returns has the keys category and author;
\* each is the embedded object of the referenced document when the id is
\* that of a document of its collection, and null otherwise (the id null,
\* missing or naming nothing); getArticle answers 200 for every
\* article of the store and listArticles always answers.
C10_PopulationTotal ==
    /\ \A a \in C10_Returned :
          LET stored == C10_Document(News, a.id).metadata
              categoryId == IF "categoryId" \in DOMAIN stored
                            THEN stored.categoryId ELSE UNDEF
              authorId == IF "authorId" \in DOMAIN stored
                          THEN stored.authorId ELSE UNDEF
          IN  /\ {"category", "author"} \subseteq DOMAIN a
              /\ a.category =
                    IF categoryId \in Ids(Categories)
                    THEN C10_Embedded(C10_Document(Categories, categoryId),
                                      {"name", "description", "icon", "slug"})
                    ELSE NullObj
              /\ a.author =
                    IF authorId \in Ids(Users)
                    THEN C10_Embedded(C10_Document(Users, authorId),
                                      {"name", "email", "avatar", "role"})
                    ELSE NullObj
    /\ res.op = "getArticle" => (res.status = 200 <=> req.id \in Ids(News))
    /\ res.op = "listArticles" =>
          /\ res.status = 200
          /\ req.categoryId = UNDEF /\ req.limit = UndefNum =>
                Len(res.body.articles) = Len(News)

\* getArticle returned an article whose category names nothing and whose
\* author was deleted: category and author are null.
C10_Witness ==
    /\ res.op = "getArticle"
    /\ res.status = 200
    /\ Get(C10_Document(News, req.id).metadata, "categoryId") = "cat_x"
    /\ Get(C10_Document(News, req.id).metadata, "authorId") = "user_l"
    /\ "user_l" \notin Ids(Users)
    /\ res.body.category = NullObj
    /\ res.body.author = NullObj

\* C11 (category round-trip): after a successful createCategory with code k
\* listCategories has exactly one entry with id "cat_" + k, and its name,
\* description, icon and slug are the supplied ones, the slug being k when
\* none was supplied.
C11_CategoryRoundTrip ==
    (res.op = "createCategory" /\ res.status = 201) =>
       LET list == ListCategories
           id == "cat_" \o Join(req.code)
           entries == {i \in 1..Len(list) : list[i].id = id}
       IN  /\ res.value = id
           /\ Cardinality(entries) = 1
           /\ \A i \in entries :
                 /\ list[i].name = req.name
                 /\ list[i].description = req.description
                 /\ list[i].icon = req.icon
                 /\ list[i].slug =
                       IF req.slug = UNDEF THEN Join(req.code) ELSE req.slug

\* A category was created without a slug under the code of a category that
\* the shared file holds.
C11_Witness ==
    /\ res.op = "createCategory"
    /\ res.status = 201
    /\ req.slug = UNDEF
    /\ \E i \in 1..Len(rootFile) : rootFile[i].id = "cat_" \o Join(req.code)

\* C12 (category id uniqueness): a createCategory that supplies name,
\* description, icon and a well-formed code whose derived id cat_<code> is
\* the id of a document of the categories collection is answered with the
\* conflict error and leaves the collection unchanged.
C12_CategoryIdUniqueness ==
    [][\A id \in Ids(Categories) :
          (/\ Handles("createCategory")
           /\ id = "cat_" \o Join(req'.code)
           /\ req'.name \notin {UNDEF, NULL, ""}
           /\ CodeFormatOk(req'.code)) =>
             /\ res'.status = 400
             /\ res'.kind = "conflict"
             /\ Categories' = Categories]_vars

\* C13 (user email uniqueness): no two users that listUsers returns have the
\* same email.
C13_UserEmailUniqueness ==
    LET users == ListUsers
    IN  \A i, j \in 1..Len(users) : users[i].email = users[j].email => i = j

\* The articles of the news collection whose status is published.
C14_Published ==
    {i \in 1..Len(News) :
        "status" \in DOMAIN News[i].metadata
        /\ News[i].metadata.status = "published"}

\* C14 (stats complement): the statistics getStats returned count the
\* documents of the news collection, those of them that are published, and
\* as drafts all the others: publishedCount + draftCount = articleCount.
C14_StatsComplement ==
    res.op = "getStats" =>
       /\ res.body.articleCount = Len(News)
       /\ res.body.publishedCount = Cardinality(C14_Published)
       /\ res.body.draftCount = Len(News) - Cardinality(C14_Published)
       /\ res.body.publishedCount + res.body.draftCount = res.body.articleCount

\* The documents of the shared file tagged for the collection.
C15_Shared(collection) ==
    SelectSeq(rootFile, LAMBDA doc : doc.metadata._collection = collection)

\* C15 (two-source merge): in the sequence the collection reader returned
\* no id occurs more than once; every id of the dedicated file and of the
\* shared file's documents of the collection occurs; and the document
\* returned for an id of the dedicated file is one of the dedicated file.
C15_TwoSourceMerge ==
    res.op = "getDocumentsByCollection" =>
       LET returned == res.body
           dedicated == readCollectionFile(req.collection)
           shared == C15_Shared(req.collection)
       IN  /\ \A i, j \in 1..Len(returned) :
                 returned[i].id = returned[j].id => i = j
           /\ Ids(returned) = Ids(dedicated) \cup Ids(shared)
           /\ \A i \in 1..Len(returned) :
                 returned[i].id \in Ids(dedicated) =>
                    \E k \in 1..Len(dedicated) : returned[i] = dedicated[k]

\* The handler h is a createCategory that has answered 201.
C16_Created(h) ==
    h.op = "createCategory" /\ h.pc = "done" /\ h.response.status = 201

\* C16 (lost-append race): when a deleteCategory goes on to write the
\* filtered copy of what it read, every category that a createCategory has
\* appended, with success reported, since that read, is absent from the
\* categories file after the write, although the delete named another id.
C16_LostAppend ==
    [][\A d \in pending, c \in pending :
          (/\ d.op = "deleteCategory"
           /\ d.pc = "categories"
           /\ d.request.id \in Ids(d.categories)
           /\ \E e \in pending' : e.handle = d.handle /\ e.pc = "done"
           /\ C16_Created(c)
           /\ c.response.value \notin Ids(d.categories)
           /\ c.response.value # d.request.id) =>
             c.response.value \notin Ids(files'["categories"])]_vars

\* A createCategory reported success, no deleteCategory named its category,
\* a deleteCategory of another category succeeded, and the created category
\* is not in the categories collection.
C16_Witness ==
    \E c \in pending, d \in pending :
       /\ C16_Created(c)
       /\ d.op = "deleteCategory"
       /\ d.pc = "done"
       /\ d.response.status = 200
       /\ \A e \in pending :
             e.op = "deleteCategory" => e.request.id # c.response.value
       /\ c.response.value \notin Ids(Categories)

\* The six create and update operations that can turn a request down.
C17_Operations ==
    {"createCategory", "createUser", "updateUser",
     "createArticle", "updateArticle", "createComment"}

\* The error responses of a turned-down request: a validation error, a
\* conflict, or a not-found error (of the document or of its collection).
C17_Rejections == {"validation", "conflict", "not_found", "no_collection"}

\* C17 (rejected requests have no side effect): a createCategory, createUser,
\* updateUser, createArticle, updateArticle or createComment call that answers
\* with a validation, conflict or not-found error leaves the four collection
\* files, their existence and the shared file exactly as they were.
C17_RejectedNoSideEffect ==
    [][(res'.op \in C17_Operations /\ res'.kind \in C17_Rejections) =>
          UNCHANGED <<files, present, rootFile>>]_vars

\* A user update was turned down for a duplicate email while the users file
\* holds the two users involved.
C17_Witness ==
    /\ res.op = "updateUser"
    /\ res.kind = "conflict"
    /\ Len(files["users"]) >= 2

\* C18 (legacy file is read-only): no create, update or delete of a
\* category, user, article or comment writes the shared documents.jsonl at
\* the store root; its contents are the same after every request.
C18_LegacyFileReadOnly == [][rootFile' = rootFile]_vars

\* The line is one JSON text with nothing but whitespace around it.
C19_Valid(line) ==
    \E i \in 1..Len(line) :
       /\ line[i] \in DOMAIN JsonValue
       /\ \A j \in 1..Len(line) : j # i => line[j] = Whitespace

\* The document a valid line holds.
C19_Document(line) ==
    JsonValue[line[CHOOSE i \in 1..Len(line) : line[i] \in DOMAIN JsonValue]]

\* The documents of the valid lines, in file order.
C19_ValidDocuments(lines) ==
    LET valid == SelectSeq(lines, C19_Valid)
    IN  [i \in 1..Len(valid) |-> C19_Document(valid[i])]

\* C19 (malformed-line tolerance): reading a file in which some lines are
\* blank or are not JSON returns exactly the documents of the other lines,
\* in file order; reading a missing file returns the empty sequence.
C19_MalformedLineTolerance ==
    res.op = "readJsonlFile" =>
       res.body = IF req.exists THEN C19_ValidDocuments(req.lines) ELSE <<>>

\* A file was read whose first line is a document and whose second line is
\* neither blank nor JSON.
C19_Witness ==
    /\ res.op = "readJsonlFile"
    /\ req.exists
    /\ Len(req.lines) = 2
    /\ C19_Valid(req.lines[1])
    /\ Fragment \in {req.lines[2][i] : i \in 1..Len(req.lines[2])}
    /\ Len(res.body) = 1

\* C20 (failed delete writes nothing): a deleteCategory or deleteArticle
\* call that answers with an error (not found, restrict violation, or a
\* storage failure of one of its file reads or writes) has modified no
\* file; the article is never gone from news with its comments still there
\* because a later step failed.
C20_FailedDeleteWritesNothing ==
    [][(res'.op \in {"deleteCategory", "deleteArticle"} /\ res'.status >= 400) =>
          UNCHANGED <<files, present, rootFile>>]_vars

\* The ids of the comments of a run in ascending string order: a digit
\* sorts before a lower-case letter.
C21_IdsAscending ==
    [i \in 1..MaxUuid |-> "comment_" \o ToString(i - 1)] \o <<"comment_l">>

\* a < b as strings.
C21_IdBefore(a, b) ==
    \E i, j \in 1..Len(C21_IdsAscending) :
       i < j /\ C21_IdsAscending[i] = a /\ C21_IdsAscending[j] = b

\* C21 (comment order): the comments listComments returns for an article
\* are in ascending created_at order, and two comments with equal
\* created_at are in ascending id order, whatever their order in the files.
C21_CommentOrder ==
    \A newsId \in Ids(News) :
       LET comments == ListComments(newsId)
       IN  \A i, j \in 1..Len(comments) :
              i < j =>
                 \/ comments[i].created_at < comments[j].created_at
                 \/ /\ comments[i].created_at = comments[j].created_at
                    /\ C21_IdBefore(comments[i].id, comments[j].id)

\* C22 (comment depth): a comment without a parent has depth 0, and a
\* comment with a parent has its parent's depth plus one, so that a reply
\* to a reply has depth 2.
C22_CommentDepth ==
    \A i \in 1..Len(Comments) :
       LET c == Comments[i]
           parentId == Get(c.metadata, "parentId")
       IN  IF ~Truthy(parentId)
           THEN c.depth = 0
           ELSE \A j \in 1..Len(Comments) :
                   Comments[j].id = parentId => c.depth = Comments[j].depth + 1

\* C23 (article status domain): every article of the news collection has
\* status draft or published, whatever the bodies of the createArticle and
\* updateArticle requests that came before.
C23_ArticleStatusDomain ==
    \A i \in 1..Len(News) :
       Get(News[i].metadata, "status") \in {"draft", "published"}

\* The bodies the articles of a run are written with.
C24_Bodies == {"B0", "B1", "B2"}

\* C24 (article content shape): the stored content of every article is its
\* current metadata.title, a blank line, and its body, after createArticle
\* and after an updateArticle that changes the title, the content, or both.
C24_ArticleContentShape ==
    \A i \in 1..Len(News) :
       \E body \in C24_Bodies :
          News[i].content = Get(News[i].metadata, "title") \o "\n\n" \o body

\* The collection an update operation writes.
C25_Collection ==
    [updateArticle |-> "news", updateCategory |-> "categories",
     updateUser |-> "users"]

\* The fields of its body an update request supplies.
C25_Supplied(request) ==
    {k \in DOMAIN request \ {"id", "tags"} : request[k] # UNDEF}
    \cup (IF "tags" \in DOMAIN request /\ request.tags # NoTags
          THEN {"tags"} ELSE {})

\* The keys of the document that a supplied field is, or is derived from:
\* content is built from the title of an article, from the name and the
\* description of a category, from the role and the name of a user.
C25_DocumentKeys(field) ==
    IF field \in {"content", "name", "description"} THEN {"content"}
    ELSE IF field = "role" THEN {"content", "tags"}
    ELSE IF field = "tags" THEN {"tags"}
    ELSE {}

\* The keys of the metadata that a supplied field is, or is derived from.
C25_MetadataKeys(field) ==
    IF field = "status" THEN {"status", "publishedAt"}
    ELSE IF field \in {"content", "tags"} THEN {}
    ELSE {field}

\* The document `after` is the document `before` with only the supplied
\* fields, what is derived from them, and last_accessed_at changed.
C25_PartialMerge(before, after, supplied) ==
    LET documentKeys ==
            {"metadata", "last_accessed_at"}
            \cup UNION {C25_DocumentKeys(f) : f \in supplied}
        metadataKeys == UNION {C25_MetadataKeys(f) : f \in supplied}
    IN  /\ DOMAIN after = DOMAIN before
        /\ after.id = before.id
        /\ after.created_at = before.created_at
        /\ \A k \in (DOMAIN before) \ documentKeys : after[k] = before[k]
        /\ DOMAIN before.metadata \subseteq DOMAIN after.metadata
        /\ (DOMAIN after.metadata) \ (DOMAIN before.metadata) \subseteq metadataKeys
        /\ \A k \in (DOMAIN before.metadata) \ metadataKeys :
              after.metadata[k] = before.metadata[k]

\* C25 (update is a partial merge with a fixed frame): a successful
\* updateArticle, updateCategory or updateUser changes, in the document it
\* names, only the supplied fields, what is derived from them, and
\* last_accessed_at; the id, created_at and _foreignKeys stay, every other
\* document stays, and so do the number and the order of the documents.
C25_UpdatePartialMerge ==
    [][(res'.op \in DOMAIN C25_Collection /\ res'.status = 200) =>
          LET collection == C25_Collection[res'.op]
              before == files[collection]
              after == files'[collection]
          IN  /\ UNCHANGED <<present, rootFile>>
              /\ \A other \in Collections \ {collection} :
                    files'[other] = files[other]
              /\ Len(after) = Len(before)
              /\ \A i \in 1..Len(before) :
                    IF before[i].id = req'.id
                    THEN C25_PartialMerge(before[i], after[i], C25_Supplied(req'))
                    ELSE after[i] = before[i]]_vars

\* An article was given a new title alone, one of two articles: it carries
\* the title and was touched now, the other article was not.
C25_Witness ==
    /\ res.op = "updateArticle"
    /\ res.status = 200
    /\ C25_Supplied(req) = {"title"}
    /\ \E i, j \in 1..Len(files["news"]) :
          /\ files["news"][i].id = req.id
          /\ files["news"][i].metadata.title = req.title
          /\ files["news"][i].last_accessed_at = clock
          /\ files["news"][j].id # req.id
          /\ files["news"][j].last_accessed_at < clock

\* C26 (concurrent creates of the same category): when createCategory
\* requests with the same code overlap, the categories file ends with at
\* most one document with the id cat_<code>.
C26_ConcurrentCreates ==
    \A i, j \in 1..Len(files["categories"]) :
       files["categories"][i].id = files["categories"][j].id => i = j

\* C27 (concurrent create and restrict-delete): when every createArticle
\* and deleteCategory handler has answered, no article names a category
\* that is absent from the categories collection.
C27_CreateAndRestrictDelete ==
    (\A h \in pending : h.pc = "done") =>
       \A i \in 1..Len(News) :
          Truthy(Get(News[i].metadata, "categoryId")) =>
             Get(News[i].metadata, "categoryId") \in Ids(Categories)

\* C28 (replies stay within one article): every comment with a parentId
\* has the newsId of its parent comment.
C28_RepliesWithinArticle ==
    \A i, j \in 1..Len(Comments) :
       (/\ Truthy(Get(Comments[i].metadata, "parentId"))
        /\ Comments[j].id = Get(Comments[i].metadata, "parentId")) =>
          Get(Comments[i].metadata, "newsId") = Get(Comments[j].metadata, "newsId")

\* Every published article of the news collection has a publishedAt.
C29_PublishedHasTimestamp ==
    \A i \in 1..Len(News) :
       Get(News[i].metadata, "status") = "published" =>
          TruthyNum(GetNum(News[i].metadata, "publishedAt"))

\* C29 (publishedAt lifecycle): a published article has a publishedAt; an
\* article gets it, the time of the request, when it first becomes
\* published, and no later updateArticle changes it, not even one that
\* makes the article a draft or published again.
C29_PublishedAtLifecycle ==
    /\ []C29_PublishedHasTimestamp
    /\ [][\A i \in 1..Len(files["news"]) :
             LET before == files["news"][i]
                 after == files'["news"][i]
             IN  /\ after.id = before.id
                 /\ TruthyNum(GetNum(before.metadata, "publishedAt")) =>
                       GetNum(after.metadata, "publishedAt")
                          = GetNum(before.metadata, "publishedAt")
                 /\ (/\ ~TruthyNum(GetNum(before.metadata, "publishedAt"))
                     /\ Get(after.metadata, "status") = "published") =>
                       GetNum(after.metadata, "publishedAt") = clock]_vars

\* An article published earlier was published again by updateArticle, now,
\* and carries the time of its first publication.
C29_Witness ==
    /\ res.op = "updateArticle"
    /\ res.status = 200
    /\ req.status = "published"
    /\ \E i \in 1..Len(files["news"]) :
          /\ files["news"][i].id = req.id
          /\ files["news"][i].last_accessed_at = clock
          /\ GetNum(files["news"][i].metadata, "publishedAt") < clock
          /\ TruthyNum(GetNum(files["news"][i].metadata, "publishedAt"))

\* Every entry of listCategories carries the number of articles of the
\* news collection whose categoryId is the entry's id.
C30_CountsArticles ==
    \A i \in 1..Len(ListCategories) :
       ListCategories[i].articleCount =
          Cardinality({j \in 1..Len(News) :
                          Get(News[j].metadata, "categoryId") = ListCategories[i].id})

\* C30 (article count agrees with the restrict check): listCategories
\* reports for every category the number of articles that name it, and
\* deleteCategory is refused by the restrict constraint exactly when that
\* number is greater than 0.
C30_CountAgreesWithRestrict ==
    /\ []C30_CountsArticles
    /\ [][res'.op = "deleteCategory" =>
             \A i \in 1..Len(ListCategories) :
                ListCategories[i].id = req'.id =>
                   (res'.kind = "restrict" <=> ListCategories[i].articleCount > 0)]_vars

\* A deleteCategory was refused by the restrict constraint, and
\* listCategories reports articles for the category.
C30_Witness ==
    /\ res.op = "deleteCategory"
    /\ res.kind = "restrict"
    /\ \E i \in 1..Len(ListCategories) :
          ListCategories[i].id = req.id /\ ListCategories[i].articleCount > 0

====
